---- MODULE Spec2Model ----
(***************************************************************************)
(* Model of the event bridge of libvirt-override.c: the six process-wide   *)
(* event-loop callables, the native->host proxy functions, the per-object  *)
(* registrations with their context references, and the interpreter lock   *)
(* bracket around every crossing between native and host code.             *)
(***************************************************************************)
EXTENDS Integers, Sequences, FiniteSets, TLC

VARIABLES
    \* ---- event-loop implementation (static globals, line 5494-5505) ----
    slots,        \* addHandleObj .. removeTimeoutObj, indexed 1..6
    names,        \* addHandleName .. removeTimeoutName, indexed 1..6
    bridgeRef,    \* per host object: Py_INCREFs minus Py_DECREFs made by the bridge
    hostRef,      \* per host object: references the host program itself holds
    freed,        \* host objects whose reference count reached zero
    uaf,          \* a freed host object has been touched
    crashed,      \* the process died on such a touch
    implInstalled,\* the C-level event loop implementation is installed
    regRet,       \* return value of the last libvirt_virEventRegisterImpl
    slotsBefore,  \* value of slots when the last libvirt_virEventRegisterImpl started
    nReg,         \* number of libvirt_virEventRegisterImpl calls so far
    flight,       \* the invocation of a slot callable in flight on the native thread
    nInv,         \* number of such invocations so far
    \* ---- event-loop round trip (host primitives and native library) ----
    hostStore,    \* what the host event loop keeps: {[kind, id, args]}
    hostNextId,   \* next watch / timer id the host add primitive hands out
    addLog,       \* argument tuples the host add primitives received
    relLog,       \* invocations of native release functions: <<ff, opaque>>
    lib,          \* the native library's add calls and what became of them
    hostHonest,   \* the host remove primitive has kept its contract so far
    shim,         \* invocations of stored callbacks in flight in the invoke shims
    lastCb,       \* the native-originated callback that returned last, and how
    \* ---- registrations, context objects and native callbacks ----
    reg,          \* per context object: the registration made with it
    ctxRef,       \* per context object: Py_INCREFs minus Py_DECREFs by the bridge
    ctxHost,      \* per context object: references held by the host program
    ctxFreed,     \* context objects whose reference count reached zero
    uafCtx,       \* a freed context object has been touched
    touchNoGil,   \* a host object has been touched without the interpreter
    freeCalls,    \* per context object: invocations of its free function
    pendingFree,  \* per context object: the library still owes the free call
    hpc,          \* where the host thread is
    npc,          \* per native thread: where its callback is
    sent,         \* per context object: events the library has invoked
    hostLog,      \* events the host dispatcher has received: <<id, event>>
    deregReturned,\* per context object: a successful deregistration has returned
    \* ---- one dispatch callback, step by step ----
    disp,         \* the callback in progress on the native thread
    pyErr,        \* the interpreter's error indicator on that thread
    natRef,       \* reference count of the native object being delivered
    errHandler,   \* libvirt_virPythonErrorFuncHandler
    dispLast,     \* how the callback that returned last went
    nDisp,        \* callbacks that have returned
    \* ---- typed-parameter codec and the calls that use it ----
    inP,          \* the native typed-parameter array handed to the codec
    inInfo,       \* the host mapping handed to the codec
    cpc,          \* which codec function has been applied to them
    out,          \* what that function returned and what it left allocated
    lastCall,     \* how the host-facing call that returned last went
    nCalls,       \* host-facing calls that have returned
    inHints,      \* the hint table handed to the schema-free encode
    addFail,      \* which virTypedParamsAdd* call cannot allocate, 0 for none
    gil           \* thread holding the interpreter, or "free"

implVars == <<slots, names, bridgeRef, hostRef, freed, uaf, crashed,
              implInstalled, regRet, slotsBefore, nReg, flight, nInv>>

loopVars == <<hostStore, hostNextId, addLog, relLog, lib, hostHonest, shim, lastCb>>

bridgeVars == <<reg, ctxRef, ctxHost, ctxFreed, uafCtx, touchNoGil, freeCalls,
                pendingFree, hpc, npc, sent, hostLog, deregReturned>>

dispVars == <<disp, pyErr, natRef, errHandler, dispLast, nDisp>>

paramVars == <<inP, inInfo, cpc, out, lastCall, nCalls, inHints, addFail>>

vars == <<implVars, loopVars, bridgeVars, dispVars, paramVars, gil>>

nonImplVars == <<loopVars, bridgeVars, dispVars, paramVars>>

nonLoopVars == <<implVars, bridgeVars, dispVars, paramVars, gil>>

nonBridgeVars == <<implVars, loopVars, dispVars, paramVars>>

nonDispVars == <<implVars, loopVars, bridgeVars, paramVars>>

nonParamVars == <<implVars, loopVars, bridgeVars, dispVars, gil>>

Range(f) == {f[x] : x \in DOMAIN f}

\* ------------------------------------------------------------------------
\* Bounds
\* ------------------------------------------------------------------------
NumSets == 2      \* distinct sets of six callables the host can pass
MaxReg == 3       \* libvirt_virEventRegisterImpl calls in one run
MaxInvoke == 2    \* native invocations of an event-loop callable in one run
MaxAdds == 2      \* native add-handle / add-timeout calls in one run
MaxRemoveTries == 2 \* native remove calls for one watch / timer id
MaxDispatch == 3   \* dispatch callbacks the library makes on the native thread
MaxEvents == 3    \* events the library delivers, all registrations together

\* ------------------------------------------------------------------------
\* Host objects
\* ------------------------------------------------------------------------
Slots == 1..6

NULL == [kind |-> "NULL", set |-> 0, slot |-> 0]

Fn(k, s) == [kind |-> "callable", set |-> k, slot |-> s]

NonCallable == [kind |-> "int", set |-> 0, slot |-> 0]

Callables == {Fn(k, s) : k \in 1..NumSets, s \in Slots}

Objs == Callables \cup {NonCallable}

PyCallable_Check(o) == o.kind = "callable"

\* Argument tuples the host passes to virEventRegisterImpl: six callables,
\* six objects of which one is not callable, or a tuple of the wrong arity.
GoodArgs == {[s \in Slots |-> Fn(k, s)] : k \in 1..NumSets}

BadArgs == {[s \in Slots |-> IF s = b THEN NonCallable ELSE Fn(k, s)] :
                k \in 1..NumSets, b \in Slots}

ShortArgs == <<>>

ArgTuples == GoodArgs \cup BadArgs \cup {ShortArgs}

\* PyArg_ParseTuple(args, "OOOOOO", ...): the arity is checked before any
\* output is stored; with six items every "O" conversion succeeds.
PyArg_ParseTuple6(args) == Len(args) = 6

\* Number of slots of a six-tuple that hold object o.
Occurs(t, o) == Cardinality({s \in Slots : t[s] = o})

\* ------------------------------------------------------------------------
\* Reference counting of host objects
\* ------------------------------------------------------------------------
\* Objects that die when the bridge's counts become `refs`, given the
\* references the host holds (`held`) among the candidates `cand`.
Dealloc(cand, refs, held) == {o \in cand : refs[o] + held[o] <= 0}

\* Py_XDECREF of the six globals (line 5760-5765): one release per slot
\* that is not NULL.
DecrefOldImpl(refs, old) ==
    [o \in Objs |-> refs[o] - Occurs(old, o)]

\* Py_INCREF of the six globals (line 5797-5802).
IncrefNewImpl(refs, new) ==
    [o \in Objs |-> refs[o] + Occurs(new, o)]

\* ------------------------------------------------------------------------
\* libvirt_virEventRegisterImpl (line 5755-5819)
\* The host thread holds the interpreter from entry up to the native
\* virEventRegisterImpl call, so the function is one step. `keep` tells
\* whether the host program keeps references of its own to the arguments
\* (FALSE: temporaries such as bound methods, alive through the argument
\* tuple only while the call lasts).
\* ------------------------------------------------------------------------
RegisterImplCallableCheck(args) ==
    \A s \in Slots : PyCallable_Check(args[s])

libvirt_virEventRegisterImpl(args, keep) ==
    /\ ~crashed
    /\ gil = "free"
    /\ nReg < MaxReg
    /\ Range(args) \cap freed = {}
    /\ LET old      == Range(slots) \ {NULL}
           argObjs  == Range(args)
           host1    == [o \in Objs |-> IF o \in argObjs /\ keep THEN 1 ELSE hostRef[o]]
           inCall   == [o \in Objs |-> host1[o] + (IF o \in argObjs THEN 1 ELSE 0)]
           ref1     == DecrefOldImpl(bridgeRef, slots)
           freed1   == freed \cup Dealloc(old, ref1, inCall)
           parsed   == PyArg_ParseTuple6(args)
           slots1   == IF parsed THEN args ELSE slots
           ok       == parsed /\ RegisterImplCallableCheck(args)
           ref2     == IF ok THEN IncrefNewImpl(ref1, args) ELSE ref1
           freed2   == freed1 \cup Dealloc(argObjs, ref2, host1)
           touched  == old \cap freed # {}
       IN  /\ slotsBefore' = slots
           /\ slots' = slots1
           /\ names' = IF ok THEN args ELSE [s \in Slots |-> NULL]
           /\ bridgeRef' = ref2
           /\ hostRef' = host1
           /\ freed' = freed2
           /\ uaf' = (uaf \/ touched)
           /\ crashed' \in (IF touched THEN BOOLEAN ELSE {FALSE})
           /\ implInstalled' = (implInstalled \/ ok)
           /\ regRet' = IF ok THEN 0 ELSE -1
           /\ nReg' = nReg + 1
    /\ UNCHANGED <<flight, nInv, gil>>
    /\ UNCHANGED nonImplVars

\* ------------------------------------------------------------------------
\* The six proxies libvirt_virEvent{Add,Update,Remove}{Handle,Timeout}Func
\* as far as the global they call is concerned: the native thread takes
\* the interpreter, reads the global and calls it with PyEval_CallObject
\* (line 5550, 5579, 5607, 5675, 5703, 5730) without taking a reference of
\* its own; the host callable may give up the interpreter while it runs.
\* ------------------------------------------------------------------------
Idle == [pc |-> "idle", slot |-> 0, callee |-> NULL]

ProxyCallSlot(s) ==
    /\ ~crashed
    /\ implInstalled
    /\ gil = "free"
    /\ flight.pc = "idle"
    /\ nInv < MaxInvoke
    /\ LET touched == slots[s] \in freed
       IN  /\ uaf' = (uaf \/ touched)
           /\ crashed' \in (IF touched THEN BOOLEAN ELSE {FALSE})
    /\ flight' = [pc |-> "incall", slot |-> s, callee |-> slots[s]]
    /\ nInv' = nInv + 1
    /\ gil' = "native"
    /\ UNCHANGED <<slots, names, bridgeRef, hostRef, freed, implInstalled,
                   regRet, slotsBefore, nReg>>
    /\ UNCHANGED nonImplVars

\* The host callable blocks or is switched out: the interpreter is free
\* while the invocation is still in flight.
HostCallableYield ==
    /\ ~crashed
    /\ flight.pc = "incall"
    /\ gil = "native"
    /\ flight' = [flight EXCEPT !.pc = "yielded"]
    /\ gil' = "free"
    /\ UNCHANGED <<slots, names, bridgeRef, hostRef, freed, uaf, crashed,
                   implInstalled, regRet, slotsBefore, nReg, nInv>>
    /\ UNCHANGED nonImplVars

HostCallableResume ==
    /\ ~crashed
    /\ flight.pc = "yielded"
    /\ gil = "free"
    /\ LET touched == flight.callee \in freed
       IN  /\ uaf' = (uaf \/ touched)
           /\ crashed' \in (IF touched THEN BOOLEAN ELSE {FALSE})
    /\ flight' = [flight EXCEPT !.pc = "incall"]
    /\ gil' = "native"
    /\ UNCHANGED <<slots, names, bridgeRef, hostRef, freed,
                   implInstalled, regRet, slotsBefore, nReg, nInv>>
    /\ UNCHANGED nonImplVars

\* PyEval_CallObject returns; the proxy drops its temporaries and
\* releases the interpreter.
ProxyReturn ==
    /\ ~crashed
    /\ flight.pc = "incall"
    /\ gil = "native"
    /\ flight' = Idle
    /\ gil' = "free"
    /\ UNCHANGED <<slots, names, bridgeRef, hostRef, freed, uaf, crashed,
                   implInstalled, regRet, slotsBefore, nReg, nInv>>
    /\ UNCHANGED nonImplVars

ImplInit ==
    /\ slots = [s \in Slots |-> NULL]
    /\ names = [s \in Slots |-> NULL]
    /\ bridgeRef = [o \in Objs |-> 0]
    /\ hostRef = [o \in Objs |-> IF o = NonCallable THEN 1 ELSE 0]
    /\ freed = {}
    /\ uaf = FALSE
    /\ crashed = FALSE
    /\ implInstalled = FALSE
    /\ regRet = 0
    /\ slotsBefore = [s \in Slots |-> NULL]
    /\ nReg = 0
    /\ flight = Idle
    /\ nInv = 0

ImplNext ==
    \/ \E args \in ArgTuples, keep \in BOOLEAN : libvirt_virEventRegisterImpl(args, keep)
    \/ \E s \in Slots : ProxyCallSlot(s)
    \/ HostCallableYield
    \/ HostCallableResume
    \/ ProxyReturn

\* ------------------------------------------------------------------------
\* Registrations: threads, context objects, kinds
\* ------------------------------------------------------------------------
Natives == {"n1", "n2"}

Ctxs == {1, 2}

\* The native thread that delivers the events of a registration.
CtxOf(n) == IF n = "n1" THEN 1 ELSE 2

NativeOf(c) == IF c = 1 THEN "n1" ELSE "n2"

RegKinds == {"domainAny", "networkAny", "close", "stream", "handle", "timeout",
             "legacy"}

\* The registration entry points exercised with each context object.
KindsOf(c) == IF c = 1 THEN {"domainAny", "close", "handle", "legacy"}
                       ELSE {"networkAny", "stream", "timeout"}

NoReg == [kind |-> "none", st |-> "none"]

HostIdle == [pc |-> "idle", c |-> 0, ret |-> 0, deferred |-> FALSE]

NativeIdle == [pc |-> "idle", k |-> 0, locked |-> FALSE, yielded |-> FALSE]

\* The release function each registration entry point hands to the library.
FreeFuncOf(kind) ==
    CASE kind = "domainAny"  -> "libvirt_virConnectDomainEventFreeFunc"
      [] kind = "networkAny" -> "libvirt_virConnectNetworkEventFreeFunc"
      [] kind = "close"      -> "libvirt_virConnectDomainEventFreeFunc"
      [] kind = "stream"     -> "libvirt_virStreamEventFreeFunc"
      [] OTHER               -> "NULL"

\* The early exits a callback of each kind has before it dispatches.
CallbackFailures(kind) ==
    CASE kind \in {"domainAny", "networkAny"} -> {"dictKey", "wrap"}
      [] kind \in {"handle", "timeout"}       -> {"lookup"}
      [] OTHER                                -> {}

\* The event payload of the k-th event of a registration.
EventOf(k) == 100 + k

DispIdle == [pc |-> "idle", kind |-> "none", ret |-> 0, objRet |-> FALSE,
             invoked |-> FALSE, path |-> "", ref0 |-> 0, held |-> {}]

NoDispatch == [kind |-> "none", path |-> "", ret |-> 0, invoked |-> FALSE,
               pending |-> FALSE, refDelta |-> 0, held |-> {}]

DispInit ==
    /\ disp = DispIdle
    /\ pyErr = FALSE
    /\ natRef = 1
    /\ errHandler = "NULL"
    /\ dispLast = NoDispatch
    /\ nDisp = 0

BridgeInit ==
    /\ reg = [c \in Ctxs |-> NoReg]
    /\ ctxRef = [c \in Ctxs |-> 0]
    /\ ctxHost = [c \in Ctxs |-> 0]
    /\ ctxFreed = {}
    /\ uafCtx = FALSE
    /\ touchNoGil = FALSE
    /\ freeCalls = [c \in Ctxs |-> 0]
    /\ pendingFree = [c \in Ctxs |-> FALSE]
    /\ hpc = HostIdle
    /\ npc = [n \in Natives |-> NativeIdle]
    /\ sent = [c \in Ctxs |-> 0]
    /\ hostLog = <<>>
    /\ deregReturned = [c \in Ctxs |-> FALSE]

\* No native-originated callback has returned yet.
NoCallback == [fn |-> "none", outcome |-> "", ret |-> 0, released |-> <<>>,
               pending |-> FALSE]

LoopInit ==
    /\ hostStore = {}
    /\ hostNextId = 1
    /\ addLog = <<>>
    /\ relLog = <<>>
    /\ lib = <<>>
    /\ hostHonest = TRUE
    /\ shim = {}
    /\ lastCb = NoCallback

\* No exception: the error indicator is clear.
NoExc == [type |-> "", msg |-> ""]

\* Nothing has been decoded or encoded yet.
NoOut == [ok |-> FALSE, info |-> <<>>, ret |-> <<>>, exc |-> NoExc,
          alloc |-> {}, freed |-> <<>>, dictLeft |-> FALSE]

\* No host-facing call has returned yet.
NoCall == [op |-> "none", retval |-> "", exc |-> NoExc, alloc |-> {},
           freed |-> <<>>, setInvoked |-> FALSE, setCount |-> 0, oob |-> FALSE,
           native |-> "", steps |-> <<>>]

ParamInit ==
    /\ inP = <<>>
    /\ inInfo = <<>>
    /\ cpc = "idle"
    /\ out = NoOut
    /\ lastCall = NoCall
    /\ nCalls = 0
    /\ inHints = <<>>
    /\ addFail = 0

SpecImplInit == ImplInit /\ LoopInit /\ BridgeInit /\ DispInit
    /\ ParamInit /\ gil = "free"

SpecImpl == SpecImplInit /\ [][ImplNext]_vars

\* ------------------------------------------------------------------------
\* Claims about the six global callables
\* ------------------------------------------------------------------------

\* C2: a rejected libvirt_virEventRegisterImpl (return -1) leaves the
\* previous set installed: the six globals still name the callables they
\* named before the call and the bridge still holds its reference on each.
C2_RejectedKeepsPrevious ==
    (regRet = -1 /\ \A s \in Slots : slotsBefore[s] \in Callables) =>
        /\ slots = slotsBefore
        /\ \A s \in Slots :
               slotsBefore[s] # NULL => bridgeRef[slotsBefore[s]] >= 1

\* C3: every object stored in one of the six globals has exactly one
\* bridge-held reference, no other object has any, and none has been
\* released more often than it was retained.
C3_SlotRefsExact ==
    \A o \in Objs :
        bridgeRef[o] = (IF o \in Range(slots) THEN 1 ELSE 0)

\* C4: a step that releases a reference of the previously installed set
\* ends with the new set installed: accepted, stored in the six globals,
\* and each of them retained.
C4_ReleaseOnlyAfterInstall ==
    [][(\E o \in Objs : bridgeRef'[o] < bridgeRef[o]) =>
          /\ regRet' = 0
          /\ \A s \in Slots :
                 slots'[s] \in Callables /\ bridgeRef'[slots'[s]] >= 1]_vars

\* C5: a callable whose invocation is in flight on the native thread is
\* not deallocated before that invocation has completed, also when the
\* six globals are replaced in the meantime.
C5_InFlightCalleeStaysValid ==
    [][(flight.pc # "idle" /\ flight.callee \notin freed /\ flight'.pc # "idle")
          => flight.callee \notin freed']_vars

\* ------------------------------------------------------------------------
\* The interpreter lock
\* ------------------------------------------------------------------------
\* LIBVIRT_ENSURE_THREAD_STATE: the calling thread t holds the interpreter
\* afterwards; it can proceed only when the interpreter is free or already
\* held by t.
CanEnsure(t, g) == g \in {"free", t}

EnsureThreadState(t, g) == t

\* LIBVIRT_RELEASE_THREAD_STATE: back to what it was before the matching
\* acquire (prev is the holder before that acquire).
ReleaseThreadState(t, prev) == IF prev = t THEN t ELSE "free"

\* LIBVIRT_BEGIN_ALLOW_THREADS / LIBVIRT_END_ALLOW_THREADS.
BeginAllowThreads(g) == "free"

EndAllowThreads(t) == t

NativeCallGil_Held(g) == g

\* The holder of the interpreter while a host-facing wrapper is inside its
\* native call: the wrapper releases the interpreter around the call.
NativeCallGil(g) == BeginAllowThreads(g)

CallbackCleanup_NoRelease(t, prev) == t

\* The holder of the interpreter when a native callback returns: every path
\* of a callback ends at its release.
CallbackCleanup(t, prev) == ReleaseThreadState(t, prev)

DispatchArgs_Swapped(id, event) == <<event, id>>

\* What a callback hands to the host dispatcher: the registration's context
\* and the event it was invoked with.
DispatchArgs(id, event) == <<id, event>>

\* Py_INCREF(pyobj_cbData) before the native registration call.
RegisterIncref(r) == r + 1

\* ------------------------------------------------------------------------
\* Event-loop round trip: host values
\* ------------------------------------------------------------------------
NULLPTR == 0

PyNone == [t |-> "none", k |-> "", v |-> 0]

PyInt(n) == [t |-> "int", k |-> "", v |-> n]

PyFunc(name) == [t |-> "func", k |-> name, v |-> 0]

\* libvirt_virEventHandleCallbackWrap, libvirt_virFreeCallbackWrap,
\* libvirt_virVoidPtrWrap: a capsule of the given kind around the pointer,
\* None for a NULL pointer.
Wrap(kind, ptr) ==
    IF ptr = NULLPTR THEN PyNone ELSE [t |-> "capsule", k |-> kind, v |-> ptr]

\* PyvirFreeCallback_Get, PyvirVoidPtr_Get: the wrapped pointer, NULL for None.
Unwrap(obj) == IF obj = PyNone THEN NULLPTR ELSE obj.v

\* libvirt_intUnwrap: succeeds on a host integer only.
IntUnwrapOk(obj) == obj.t = "int"

Kinds == {"handle", "timeout"}

CbCapsuleKind(kind) ==
    IF kind = "handle" THEN "virEventHandleCallback" ELSE "virEventTimeoutCallback"

InvokeShimName(kind) ==
    IF kind = "handle" THEN "_eventInvokeHandleCallback"
                       ELSE "_eventInvokeTimeoutCallback"

\* cb_args (line 5539-5542, 5664-5667)
CbArgs(kind, cb, opaque, ff) ==
    <<Wrap(CbCapsuleKind(kind), cb), Wrap("void*", opaque), Wrap("virFreeCallback", ff)>>

\* pyobj_args (line 5544-5548 for handles, 5669-5673 for timeouts)
AddArgs(kind, fd, event, cb, opaque, ff) ==
    IF kind = "handle"
    THEN <<PyInt(fd), PyInt(event), PyFunc(InvokeShimName(kind)),
           CbArgs(kind, cb, opaque, ff)>>
    ELSE <<PyInt(fd), PyFunc(InvokeShimName(kind)), CbArgs(kind, cb, opaque, ff)>>

\* The tuple of three capsules inside the arguments of an add primitive.
CbArgsOf(args) == args[Len(args)]

\* Native inputs
Fds == {7}
EventMasks == {3}
Timeouts == {500}
NativeCbs == {1}
FreeFuncs == {NULLPTR, 1}
FreshOpaque == 10 + Len(lib) + 1

\* ------------------------------------------------------------------------
\* Host add / remove primitives (the event loop implemented in the host
\* language). Add stores the tuple it is given and returns a new id, or
\* a negative integer to signal failure, or raises, or returns something
\* that is no integer. Remove hands back
\* (id, opaque capsule, release capsule) as stored and forgets the entry,
\* or raises, or returns something malformed, or hands back the capsules
\* of another pending registration.
\* ------------------------------------------------------------------------
AddOutcomes == {"ok", "negative", "raise", "nonint"}

HostAddResult(outcome) ==
    CASE outcome = "ok" -> [t |-> "int", k |-> "", v |-> hostNextId]
      [] outcome = "negative" -> [t |-> "int", k |-> "", v |-> -2]
      [] outcome = "nonint" -> PyNone
      [] OTHER -> [t |-> "NULL", k |-> "", v |-> 0]

RemoveOutcomes == {"stored", "raise", "malformed", "swapped"}

Entries(kind, id) == {e \in hostStore : e.kind = kind /\ e.id = id}

HostRemoveResults(kind, id, outcome) ==
    CASE outcome = "stored" ->
             {[t |-> "tuple",
               items |-> <<PyInt(id), CbArgsOf(e.args)[2], CbArgsOf(e.args)[3]>>] :
                  e \in Entries(kind, id)}
      [] outcome = "swapped" ->
             {[t |-> "tuple",
               items |-> <<PyInt(id), CbArgsOf(e.args)[2], CbArgsOf(e.args)[3]>>] :
                  e \in {x \in hostStore : x.kind = kind /\ x.id # id}}
      [] outcome = "malformed" ->
             {[t |-> "tuple", items |-> <<PyInt(id), PyNone>>],
              [t |-> "tuple", items |-> <<PyInt(id), PyNone, PyNone, PyNone>>],
              [t |-> "none", items |-> <<>>]}
      [] OTHER -> {[t |-> "NULL", items |-> <<>>]}

\* ------------------------------------------------------------------------
\* libvirt_virEventAddHandleFunc (line 5509-5565) and
\* libvirt_virEventAddTimeoutFunc (line 5633-5689). For a timeout `fd` is
\* the timeout and `event` is unused. The native thread holds the
\* interpreter from LIBVIRT_ENSURE_THREAD_STATE to
\* LIBVIRT_RELEASE_THREAD_STATE.
\* ------------------------------------------------------------------------
\* A host callable that returns NULL has set the error indicator.
HostRaised(result) == result.t = "NULL"

\* libvirt_intUnwrap sets the error indicator when it fails.
IntUnwrapRaised(result) == ~IntUnwrapOk(result)

ProxyClears_Never(result) == FALSE

\* if (!result) { PyErr_Print(); PyErr_Clear(); } (line 5551-5553,
\* 5607-5609, 5676-5678, 5730-5732): the error indicator is cleared exactly
\* on the branch taken for a NULL result.
ProxyClears(result) == result.t = "NULL"

\* The error indicator when an add proxy returns: set by the host callable
\* and cleared on the NULL branch, or set by libvirt_intUnwrap on the other
\* branch (line 5554-5556), where nothing clears it.
AddPending(called, result) ==
    /\ called
    /\ \/ HostRaised(result) /\ ~ProxyClears(result)
       \/ ~HostRaised(result) /\ IntUnwrapRaised(result)

\* The error indicator when a remove proxy returns.
RemovePending(result) == HostRaised(result) /\ ~ProxyClears(result)

\* int retval = -1; ... libvirt_intUnwrap(result, &retval) (line 5523,
\* 5551-5556): the host's integer, -1 when there is none.
AddRetval_Zero(called, result) ==
    IF called /\ result.t # "NULL" /\ IntUnwrapOk(result) THEN result.v ELSE 0
AddRetval(called, result) ==
    IF called /\ result.t # "NULL" /\ IntUnwrapOk(result) THEN result.v ELSE -1

EventAddFunc(kind, fd, event, cb, ff, lookupOk, outcome) ==
    /\ ~crashed
    /\ implInstalled
    /\ gil = "free"
    /\ Len(lib) < MaxAdds
    /\ LET opaque == FreshOpaque
           args   == AddArgs(kind, fd, event, cb, opaque, ff)
           called == lookupOk
           result == HostAddResult(outcome)
           stored == called /\ outcome = "ok"
       IN  /\ addLog' = IF called THEN Append(addLog, [kind |-> kind, args |-> args])
                                  ELSE addLog
           /\ hostStore' = IF stored
                           THEN hostStore \cup {[kind |-> kind, id |-> hostNextId, args |-> args]}
                           ELSE hostStore
           /\ hostNextId' = IF stored THEN hostNextId + 1 ELSE hostNextId
           /\ lib' = Append(lib, [kind |-> kind, fd |-> fd, event |-> event, cb |-> cb,
                                  opaque |-> opaque, ff |-> ff, lookupOk |-> lookupOk,
                                  outcome |-> IF called THEN outcome ELSE "notcalled",
                                  ret |-> AddRetval(called, result),
                                  removeRets |-> <<>>, handedBack |-> FALSE])
           /\ lastCb' = [fn |-> "add", outcome |-> IF called THEN outcome ELSE "notcalled",
                          ret |-> AddRetval(called, result), released |-> <<>>,
                          pending |-> AddPending(called, result)]
    /\ UNCHANGED <<relLog, hostHonest, shim>>
    /\ UNCHANGED nonLoopVars

libvirt_virEventAddHandleFunc(fd, event, cb, ff, lookupOk, outcome) ==
    EventAddFunc("handle", fd, event, cb, ff, lookupOk, outcome)

libvirt_virEventAddTimeoutFunc(timeout, cb, ff, lookupOk, outcome) ==
    EventAddFunc("timeout", timeout, 0, cb, ff, lookupOk, outcome)

\* ------------------------------------------------------------------------
\* libvirt_virEventRemoveHandleFunc (line 5592-5630) and
\* libvirt_virEventRemoveTimeoutFunc (line 5715-5753)
\* ------------------------------------------------------------------------
\* PyTuple_Check(result) && PyTuple_Size(result) == 3 (line 5611, 5734)
WellFormed(result) == result.t = "tuple" /\ Len(result.items) = 3

\* The release invocations made for a well-formed result (line 5616-5620,
\* 5739-5743): cff(opaque) when the release capsule holds a function.
ReleaseCalls_ItemZero(result) ==
    IF Unwrap(result.items[3]) # NULLPTR
    THEN << <<Unwrap(result.items[3]), Unwrap(result.items[1])>> >>
    ELSE <<>>

ReleaseCalls_Always(result) ==
    << <<Unwrap(result.items[3]), Unwrap(result.items[2])>> >>

ReleaseCalls(result) ==
    IF Unwrap(result.items[3]) # NULLPTR
    THEN << <<Unwrap(result.items[3]), Unwrap(result.items[2])>> >>
    ELSE <<>>

EventRemoveFunc(kind, i, outcome) ==
    /\ ~crashed
    /\ implInstalled
    /\ gil = "free"
    /\ i \in 1..Len(lib)
    /\ lib[i].kind = kind
    /\ lib[i].ret >= 0
    /\ Len(lib[i].removeRets) < MaxRemoveTries
    /\ \A j \in 1..Len(lib[i].removeRets) : lib[i].removeRets[j] # 0
    /\ \E result \in HostRemoveResults(kind, lib[i].ret, outcome) :
         LET ok     == result.t # "NULL" /\ WellFormed(result)
             retval == IF ok THEN 0 ELSE -1
         IN  /\ relLog' = IF ok THEN relLog \o ReleaseCalls(result) ELSE relLog
             /\ lib' = [lib EXCEPT ![i].removeRets = Append(@, retval),
                                   ![i].handedBack = (@ \/ outcome = "stored")]
             /\ lastCb' = [fn |-> "remove", outcome |-> outcome, ret |-> retval,
                            released |-> IF ok THEN ReleaseCalls(result) ELSE <<>>,
                            pending |-> RemovePending(result)]
    /\ hostStore' = IF outcome \in {"stored", "swapped"}
                    THEN hostStore \ Entries(kind, lib[i].ret)
                    ELSE hostStore
    /\ hostHonest' = (hostHonest /\ outcome # "swapped")
    /\ UNCHANGED <<hostNextId, addLog, shim>>
    /\ UNCHANGED nonLoopVars

libvirt_virEventRemoveHandleFunc(i, outcome) == EventRemoveFunc("handle", i, outcome)

libvirt_virEventRemoveTimeoutFunc(i, outcome) == EventRemoveFunc("timeout", i, outcome)

\* ------------------------------------------------------------------------
\* libvirt_virEventInvokeHandleCallback (line 5821-5847) and
\* libvirt_virEventInvokeTimeoutCallback (line 5849-5874): the host event
\* loop fires, one at a time, a callback it has stored; the shim unwraps
\* the two capsules and, when the callback is not NULL, calls it with the
\* opaque pointer, the interpreter released for the duration of the call.
\* ------------------------------------------------------------------------
EventInvokeCallback(kind, e) ==
    LET cb     == Unwrap(CbArgsOf(e.args)[1])
        opaque == Unwrap(CbArgsOf(e.args)[2])
    IN  /\ ~crashed
        /\ implInstalled
        /\ gil = "free"
        /\ e \in hostStore
        /\ e.kind = kind
        /\ cb # NULLPTR
        /\ shim = {}
        /\ shim' = shim \cup {[kind |-> kind, id |-> e.id, cb |-> cb, opaque |-> opaque]}
        /\ gil' = NativeCallGil("host")
        /\ UNCHANGED <<hostStore, hostNextId, addLog, relLog, lib, hostHonest, lastCb>>
        /\ UNCHANGED <<implVars, bridgeVars, dispVars, paramVars>>

libvirt_virEventInvokeHandleCallback(e) == EventInvokeCallback("handle", e)

libvirt_virEventInvokeTimeoutCallback(e) == EventInvokeCallback("timeout", e)

\* The native callback returns; the shim takes the interpreter back and
\* returns to the host event loop.
EventInvokeReturn(f) ==
    /\ f \in shim
    /\ CanEnsure("host", gil)
    /\ shim' = shim \ {f}
    /\ gil' = "free"
    /\ UNCHANGED <<hostStore, hostNextId, addLog, relLog, lib, hostHonest, lastCb>>
    /\ UNCHANGED <<implVars, bridgeVars, dispVars, paramVars>>

\* The state after one accepted libvirt_virEventRegisterImpl(set 1).
ImplInstalledInit ==
    /\ slots = [s \in Slots |-> Fn(1, s)]
    /\ names = [s \in Slots |-> Fn(1, s)]
    /\ bridgeRef = [o \in Objs |-> IF o \in Range([s \in Slots |-> Fn(1, s)]) THEN 1 ELSE 0]
    /\ hostRef = [o \in Objs |-> IF o = NonCallable THEN 1 ELSE 0]
    /\ freed = {}
    /\ uaf = FALSE
    /\ crashed = FALSE
    /\ implInstalled = TRUE
    /\ regRet = 0
    /\ slotsBefore = [s \in Slots |-> NULL]
    /\ nReg = 1
    /\ flight = Idle
    /\ nInv = 0

LoopNext ==
    \/ \E fd \in Fds, ev \in EventMasks, cb \in NativeCbs, ff \in FreeFuncs,
          lookupOk \in BOOLEAN, outcome \in AddOutcomes :
          libvirt_virEventAddHandleFunc(fd, ev, cb, ff, lookupOk, outcome)
    \/ \E t \in Timeouts, cb \in NativeCbs, ff \in FreeFuncs,
          lookupOk \in BOOLEAN, outcome \in AddOutcomes :
          libvirt_virEventAddTimeoutFunc(t, cb, ff, lookupOk, outcome)
    \/ \E i \in 1..MaxAdds, outcome \in RemoveOutcomes :
          libvirt_virEventRemoveHandleFunc(i, outcome)
    \/ \E i \in 1..MaxAdds, outcome \in RemoveOutcomes :
          libvirt_virEventRemoveTimeoutFunc(i, outcome)
    \/ \E e \in hostStore : libvirt_virEventInvokeHandleCallback(e)
    \/ \E e \in hostStore : libvirt_virEventInvokeTimeoutCallback(e)
    \/ \E f \in shim : EventInvokeReturn(f)

SpecLoopInit == ImplInstalledInit /\ LoopInit /\ BridgeInit /\ DispInit
    /\ ParamInit /\ gil = "free"

SpecLoop == SpecLoopInit /\ [][LoopNext]_vars

\* ------------------------------------------------------------------------
\* Claims about the event-loop round trip
\* ------------------------------------------------------------------------
\* Entries of addLog / relLog that belong to the i-th native add call (each
\* call has an opaque pointer of its own).
Received(i) ==
    {j \in 1..Len(addLog) :
        CbArgsOf(addLog[j].args)[2] = Wrap("void*", lib[i].opaque)}

Releases(i) == {j \in 1..Len(relLog) : relLog[j][2] = lib[i].opaque}

RemovedOk(i) ==
    /\ lib[i].handedBack
    /\ lib[i].removeRets # <<>>
    /\ lib[i].removeRets[Len(lib[i].removeRets)] = 0

ReleasedOnceAfterRemove(i) ==
    /\ lib[i].handedBack =>
          /\ lib[i].removeRets[Len(lib[i].removeRets)] = 0
          /\ Cardinality(Releases(i)) = (IF lib[i].ff # NULLPTR THEN 1 ELSE 0)
          /\ \A j \in Releases(i) : relLog[j] = <<lib[i].ff, lib[i].opaque>>
    /\ ~lib[i].handedBack => Releases(i) = {}

\* C1 as stated: the add primitive receives (fd, event-mask, callback
\* capsule, opaque tuple) exactly once for every native add call, and a
\* remove whose host primitive hands back the stored 3-tuple invokes the
\* release function exactly once with the original opaque pointer and
\* reports success.
C1_Original ==
    hostHonest =>
        \A i \in 1..Len(lib) :
            /\ Cardinality(Received(i)) = 1
            /\ \A j \in Received(i) :
                   /\ addLog[j].args[Len(addLog[j].args) - 1]
                         = Wrap(CbCapsuleKind(lib[i].kind), lib[i].cb)
                   /\ CbArgsOf(addLog[j].args)
                         = CbArgs(lib[i].kind, lib[i].cb, lib[i].opaque, lib[i].ff)
            /\ ReleasedOnceAfterRemove(i)

\* C1 (amended): when the host-side invoke shim is found, the add primitive
\* receives exactly once (fd, event-mask, invoke shim, (callback capsule,
\* opaque capsule, release capsule)), or (timeout, invoke shim, (...)) for a
\* timeout; a remove whose host primitive hands back the stored 3-tuple
\* invokes the release function exactly once with the original opaque
\* pointer (not at all when the release function is NULL) and reports
\* success; before such a remove the release function is not invoked.
C1_RoundTrip ==
    hostHonest =>
        \A i \in 1..Len(lib) :
            /\ Cardinality(Received(i)) = (IF lib[i].lookupOk THEN 1 ELSE 0)
            /\ \A j \in Received(i) :
                   /\ addLog[j].kind = lib[i].kind
                   /\ addLog[j].args[1] = PyInt(lib[i].fd)
                   /\ lib[i].kind = "handle" => addLog[j].args[2] = PyInt(lib[i].event)
                   /\ Len(addLog[j].args) = (IF lib[i].kind = "handle" THEN 4 ELSE 3)
                   /\ addLog[j].args[Len(addLog[j].args) - 1]
                         = PyFunc(InvokeShimName(lib[i].kind))
                   /\ CbArgsOf(addLog[j].args)
                         = <<Wrap(CbCapsuleKind(lib[i].kind), lib[i].cb),
                             Wrap("void*", lib[i].opaque),
                             Wrap("virFreeCallback", lib[i].ff)>>
            /\ ReleasedOnceAfterRemove(i)

\* A handle and a timeout, both with a release function, have been added
\* and removed, each released exactly once.
C1_Witness ==
    /\ hostHonest
    /\ \E i, j \in 1..Len(lib) :
          /\ lib[i].kind = "handle" /\ lib[j].kind = "timeout"
          /\ lib[i].ff # NULLPTR /\ lib[j].ff # NULLPTR
          /\ RemovedOk(i) /\ RemovedOk(j)
          /\ Cardinality(Releases(i)) = 1 /\ Cardinality(Releases(j)) = 1

\* ------------------------------------------------------------------------
\* Context objects
\* ------------------------------------------------------------------------
InFlight(c) == npc[NativeOf(c)].pc # "idle"

\* The library holds its own lock across a callback it dispatched locked.
NoLockedInFlight == \A n \in Natives : ~(npc[n].pc # "idle" /\ npc[n].locked)

\* The context objects that die when the counts become r (bridge) and h (host).
DeadCtx(c, r, h) == IF r + h <= 0 THEN {c} ELSE {}

\* ------------------------------------------------------------------------
\* Host-facing registration entry points
\* ------------------------------------------------------------------------
\* libvirt_virConnectDomainEventRegisterAny and its siblings, up to the
\* native call: an unknown event id returns failure at once; otherwise the
\* context is referenced and the interpreter released for the native call.
RegisterBegin(c, kind, validEvent) ==
    /\ hpc.pc = "idle"
    /\ reg[c].st = "none"
    /\ gil = "free"
    /\ kind \in KindsOf(c)
    /\ IF kind = "domainAny" /\ ~validEvent
       THEN /\ reg' = [reg EXCEPT ![c] = [kind |-> kind, st |-> "failed"]]
            /\ UNCHANGED <<ctxRef, ctxHost, hpc, gil>>
       ELSE /\ validEvent
            /\ reg' = [reg EXCEPT ![c] = [kind |-> kind, st |-> "registering"]]
            /\ ctxRef' = [ctxRef EXCEPT ![c] = RegisterIncref(@)]
            /\ ctxHost' = [ctxHost EXCEPT ![c] = 1]
            /\ hpc' = [pc |-> "inReg", c |-> c, ret |-> 0, deferred |-> FALSE]
            /\ gil' = NativeCallGil("host")
    /\ UNCHANGED <<ctxFreed, uafCtx, touchNoGil, freeCalls, pendingFree, npc,
                   sent, hostLog, deregReturned>>
    /\ UNCHANGED nonBridgeVars

\* The context's count after a native registration that failed:
\* if (ret < 0) Py_DECREF(pyobj_cbData) in the RegisterAny family (line
\* 7137-7139) and the handle / timeout calls; nothing in
\* libvirt_virConnectDomainEventRegister (line 5446-5457).
RegisterFailureUndo(kind, r) == IF kind = "legacy" THEN r ELSE r - 1

\* The context's count after the native deregistration has returned ret:
\* Py_DECREF(pyobj_conn_inst) in libvirt_virConnectDomainEventDeregister
\* (line 5486), whatever ret is; nothing in the other calls, whose release
\* function does it.
DeregisterDecref(kind, ret, r) == IF kind = "legacy" THEN r - 1 ELSE r

\* The native registration returns ok or fails; the wrapper takes the
\* interpreter back, drops its reference on failure and returns, after
\* which the host drops the argument tuple, its only reference to the
\* context object.
RegisterEnd(ok) ==
    LET c == hpc.c
        r == IF ok THEN ctxRef[c] ELSE RegisterFailureUndo(reg[c].kind, ctxRef[c])
        h == 0
        g1 == EndAllowThreads("host")
    IN  /\ hpc.pc = "inReg"
        /\ NoLockedInFlight
        /\ CanEnsure("host", gil)
        /\ touchNoGil' = (touchNoGil \/ g1 # "host")
        /\ reg' = [reg EXCEPT ![c].st = IF ok THEN "active" ELSE "failed"]
        /\ ctxRef' = [ctxRef EXCEPT ![c] = r]
        /\ ctxHost' = [ctxHost EXCEPT ![c] = h]
        /\ ctxFreed' = ctxFreed \cup DeadCtx(c, r, h)
        /\ hpc' = HostIdle
        /\ gil' = "free"
        /\ UNCHANGED <<uafCtx, freeCalls, pendingFree, npc, sent,
                       hostLog, deregReturned>>
        /\ UNCHANGED nonBridgeVars

\* libvirt_virConnectDomainEventDeregisterAny and its siblings, up to the
\* native call: nothing but the release of the interpreter.
DeregisterBegin(c) ==
    /\ hpc.pc = "idle"
    /\ reg[c].st = "active"
    /\ gil = "free"
    /\ hpc' = [pc |-> "inDereg", c |-> c, ret |-> 0, deferred |-> FALSE]
    /\ gil' = NativeCallGil("host")
    /\ UNCHANGED <<reg, ctxRef, ctxHost, ctxFreed, uafCtx, touchNoGil, freeCalls,
                   pendingFree, npc, sent, hostLog, deregReturned>>
    /\ UNCHANGED nonBridgeVars

\* The library processes the deregistration: on success the registration
\* is gone, and the release function, when there is one, is owed; it is
\* called before the native call returns unless a callback of this
\* registration is in flight, in which case it is called after that
\* callback has returned.
NativeDeregister(ok) ==
    LET c == hpc.c
    IN  /\ hpc.pc = "inDereg"
        /\ NoLockedInFlight
        /\ IF ok
           THEN /\ reg' = [reg EXCEPT ![c].st = "removed"]
                /\ pendingFree' = [pendingFree EXCEPT ![c] = FreeFuncOf(reg[c].kind) # "NULL"]
                /\ hpc' = [hpc EXCEPT !.pc = "deregDone", !.ret = 0, !.deferred = InFlight(c)]
           ELSE /\ hpc' = [hpc EXCEPT !.pc = "deregDone", !.ret = -1]
                /\ UNCHANGED <<reg, pendingFree>>
        /\ UNCHANGED <<ctxRef, ctxHost, ctxFreed, uafCtx, touchNoGil, freeCalls,
                       npc, sent, hostLog, deregReturned, gil>>
        /\ UNCHANGED nonBridgeVars

\* The native deregistration returns; the wrapper takes the interpreter
\* back, drops the reference it drops itself, if any, and returns.  A drop
\* on a context object that is already freed is a use after free and
\* leaves no count to speak of.
DeregisterEnd ==
    LET c == hpc.c
        g1 == EndAllowThreads("host")
        touched == DeregisterDecref(reg[c].kind, hpc.ret, ctxRef[c]) # ctxRef[c]
        r == IF touched /\ c \notin ctxFreed
             THEN DeregisterDecref(reg[c].kind, hpc.ret, ctxRef[c])
             ELSE ctxRef[c]
    IN  /\ hpc.pc = "deregDone"
        /\ touchNoGil' = (touchNoGil \/ g1 # "host")
        /\ hpc.ret = 0 => (~pendingFree[c] \/ hpc.deferred)
        /\ CanEnsure("host", gil)
        /\ deregReturned' = [deregReturned EXCEPT ![c] = @ \/ hpc.ret = 0]
        /\ uafCtx' = (uafCtx \/ (touched /\ c \in ctxFreed))
        /\ ctxRef' = [ctxRef EXCEPT ![c] = r]
        /\ ctxFreed' = ctxFreed \cup (IF r # ctxRef[c] THEN DeadCtx(c, r, ctxHost[c]) ELSE {})
        /\ hpc' = HostIdle
        /\ gil' = "free"
        /\ UNCHANGED <<reg, ctxHost, freeCalls, pendingFree, npc, sent, hostLog>>
        /\ UNCHANGED nonBridgeVars

\* ------------------------------------------------------------------------
\* Native callbacks
\* ------------------------------------------------------------------------
\* libvirt_virConnectDomainEventFreeFunc, libvirt_virConnectNetworkEventFreeFunc
\* and libvirt_virStreamEventFreeFunc: acquire, drop the registration's
\* reference, release.  The library calls it on the host thread inside the
\* native deregistration, or on the dispatching thread once the callback
\* that was in flight has returned.
EventFreeFunc(c) ==
    LET t == IF hpc.pc = "deregDone" /\ hpc.c = c /\ ~hpc.deferred
             THEN "host" ELSE NativeOf(c)
        g1 == EnsureThreadState(t, gil)
        r == ctxRef[c] - 1
    IN  /\ pendingFree[c]
        /\ ~InFlight(c)
        /\ CanEnsure(t, gil)
        /\ touchNoGil' = (touchNoGil \/ g1 # t)
        /\ uafCtx' = (uafCtx \/ c \in ctxFreed)
        /\ ctxRef' = [ctxRef EXCEPT ![c] = r]
        /\ ctxFreed' = ctxFreed \cup DeadCtx(c, r, ctxHost[c])
        /\ freeCalls' = [freeCalls EXCEPT ![c] = @ + 1]
        /\ pendingFree' = [pendingFree EXCEPT ![c] = FALSE]
        /\ gil' = ReleaseThreadState(t, gil)
        /\ UNCHANGED <<reg, ctxHost, hpc, npc, sent, hostLog, deregReturned>>
        /\ UNCHANGED nonBridgeVars

\* The library invokes the callback of an active registration on the
\* registration's native thread, one event after the other.
NativeInvoke(n, locked) ==
    LET c == CtxOf(n)
    IN  /\ npc[n].pc = "idle"
        /\ reg[c].st = "active"
        /\ sent[1] + sent[2] < MaxEvents
        /\ sent' = [sent EXCEPT ![c] = @ + 1]
        /\ npc' = [npc EXCEPT ![n] = [pc |-> "invoked", k |-> sent[c] + 1,
                                      locked |-> locked, yielded |-> FALSE]]
        /\ UNCHANGED <<reg, ctxRef, ctxHost, ctxFreed, uafCtx, touchNoGil,
                       freeCalls, pendingFree, hpc, hostLog, deregReturned, gil>>
        /\ UNCHANGED nonBridgeVars

\* The callback proper (libvirt_virConnectDomainEventLifecycleCallback and
\* its siblings, libvirt_virConnectCloseCallbackDispatch,
\* libvirt_virStreamEventCallback, libvirt_virEventHandleCallback,
\* libvirt_virEventTimeoutCallback) from its acquire to the call of the host
\* dispatcher, or through an early exit to its return.
EventCallback(n, fail) ==
    LET c == CtxOf(n)
        g1 == EnsureThreadState(n, gil)
    IN  /\ npc[n].pc = "invoked"
        /\ CanEnsure(n, gil)
        /\ fail \in CallbackFailures(reg[c].kind) \cup {"none"}
        /\ touchNoGil' = (touchNoGil \/ g1 # n)
        /\ uafCtx' = (uafCtx \/ (fail # "lookup" /\ c \in ctxFreed))
        /\ IF fail = "none"
           THEN /\ ctxRef' = [ctxRef EXCEPT ![c] = @ + 1]
                /\ hostLog' = Append(hostLog, DispatchArgs(c, EventOf(npc[n].k)))
                /\ npc' = [npc EXCEPT ![n].pc = "dispatch"]
                /\ gil' = g1
           ELSE /\ npc' = [npc EXCEPT ![n] = NativeIdle]
                /\ gil' = CallbackCleanup(n, gil)
                /\ UNCHANGED <<ctxRef, hostLog>>
        /\ UNCHANGED <<reg, ctxHost, ctxFreed, freeCalls, pendingFree, hpc,
                       sent, deregReturned>>
        /\ UNCHANGED nonBridgeVars

\* The host dispatcher blocks and lets other threads run.
DispatchYield(n) ==
    /\ npc[n].pc = "dispatch"
    /\ ~npc[n].yielded
    /\ gil = n
    /\ npc' = [npc EXCEPT ![n].pc = "yielded", ![n].yielded = TRUE]
    /\ gil' = "free"
    /\ UNCHANGED <<reg, ctxRef, ctxHost, ctxFreed, uafCtx, touchNoGil, freeCalls,
                   pendingFree, hpc, sent, hostLog, deregReturned>>
    /\ UNCHANGED nonBridgeVars

DispatchResume(n) ==
    /\ npc[n].pc = "yielded"
    /\ gil = "free"
    /\ npc' = [npc EXCEPT ![n].pc = "dispatch"]
    /\ gil' = n
    /\ UNCHANGED <<reg, ctxRef, ctxHost, ctxFreed, uafCtx, touchNoGil, freeCalls,
                   pendingFree, hpc, sent, hostLog, deregReturned>>
    /\ UNCHANGED nonBridgeVars

\* The host dispatcher returns (a value or an exception); the callback
\* drops its temporary reference, prints a pending exception, releases and
\* returns to the library.
EventCallbackReturn(n, raised) ==
    LET c == CtxOf(n)
        r == ctxRef[c] - 1
    IN  /\ npc[n].pc = "dispatch"
        /\ gil = n
        /\ uafCtx' = (uafCtx \/ c \in ctxFreed)
        /\ ctxRef' = [ctxRef EXCEPT ![c] = r]
        /\ ctxFreed' = ctxFreed \cup DeadCtx(c, r, ctxHost[c])
        /\ npc' = [npc EXCEPT ![n] = NativeIdle]
        /\ gil' = CallbackCleanup(n, "free")
        /\ UNCHANGED <<reg, ctxHost, touchNoGil, freeCalls, pendingFree, hpc,
                       sent, hostLog, deregReturned>>
        /\ UNCHANGED nonBridgeVars

NativeNext(n) ==
    \/ \E locked \in BOOLEAN : NativeInvoke(n, locked)
    \/ \E fail \in {"none", "dictKey", "wrap", "lookup"} : EventCallback(n, fail)
    \/ DispatchYield(n)
    \/ DispatchResume(n)
    \/ \E raised \in BOOLEAN : EventCallbackReturn(n, raised)

BridgeNext ==
    \/ \E c \in Ctxs, kind \in RegKinds, validEvent \in BOOLEAN :
          RegisterBegin(c, kind, validEvent)
    \/ \E ok \in BOOLEAN : RegisterEnd(ok)
    \/ \E c \in Ctxs : DeregisterBegin(c)
    \/ \E ok \in BOOLEAN : NativeDeregister(ok)
    \/ DeregisterEnd
    \/ \E c \in Ctxs : EventFreeFunc(c)
    \/ \E n \in Natives : NativeNext(n)

SpecBridgeInit == ImplInit /\ LoopInit /\ BridgeInit /\ DispInit
    /\ ParamInit /\ gil = "free"

SpecBridge == SpecBridgeInit /\ [][BridgeNext]_vars

\* Every native thread is scheduled.
SpecBridgeFair == SpecBridge /\ \A n \in Natives : WF_vars(NativeNext(n))

\* C11: when the host remove-handle or remove-timeout primitive raises, or
\* returns anything other than a tuple of exactly three elements, the
\* remove proxy reports failure (-1) to the library, invokes no release
\* function, leaves no host exception pending and does not crash.
C11_RemoveProtocolViolation ==
    (lastCb.fn = "remove" /\ lastCb.outcome \in {"raise", "malformed"}) =>
        /\ lastCb.ret = -1
        /\ lastCb.released = <<>>
        /\ ~lastCb.pending
        /\ ~crashed

\* A malformed and then a raising remove of one entry have both been
\* reported as failed.
C11_Witness ==
    \E i \in 1..Len(lib) :
        /\ Len(lib[i].removeRets) = 2
        /\ lib[i].removeRets[1] = -1
        /\ lib[i].removeRets[2] = -1
        /\ lastCb.fn = "remove"
        /\ lastCb.outcome = "raise"
        /\ lastCb.ret = -1

\* C10: removal is synchronous: a callback of a handle or timer that is in
\* flight when the remove call is made runs to completion with its
\* context (the opaque pointer it was registered with) still valid, that
\* is, not yet handed to the release function.
C10_InFlightContextValid ==
    hostHonest =>
        \A f \in shim : \A j \in 1..Len(relLog) : relLog[j][2] # f.opaque

\* ------------------------------------------------------------------------
\* Context references, the interpreter lock, ordering
\* ------------------------------------------------------------------------
\* The events of registration c the host dispatcher has received, in order.
LogOf(c) == SelectSeq(hostLog, LAMBDA e : e[1] = c)

HostInNativeCall == hpc.pc \in {"inReg", "inDereg", "deregDone"}

\* C6: for every registration entry point (domain and network RegisterAny,
\* close callback, stream event callback, virEventAddHandle,
\* virEventAddTimeout) a successful registration leaves the bridge holding
\* exactly one reference on the context object while it is registered, a
\* failed one leaves none, and once the registration has been removed (the
\* removal has returned, no callback is in flight, no release call is owed)
\* that reference has been released exactly once.
C6_CtxRefHeldOnceReleasedOnce ==
    \A c \in Ctxs :
        /\ ctxRef[c] >= 0
        /\ reg[c].st = "active" /\ ~InFlight(c) => ctxRef[c] = 1
        /\ reg[c].st = "failed" => ctxRef[c] = 0
        /\ (reg[c].st = "removed" /\ ~InFlight(c) /\ ~pendingFree[c] /\ hpc.pc = "idle")
              => ctxRef[c] = 0

\* C7: a native thread holds the interpreter exactly while it is between
\* the acquire and the release of a callback, whichever path the callback
\* takes (dispatch, dispatcher exception, early exit, release function), and
\* no host object is touched without the interpreter.
C7_AcquireReleaseBracket ==
    /\ \A n \in Natives : (gil = n) <=> (npc[n].pc = "dispatch")
    /\ ~touchNoGil

\* Both native threads are back in the library with the interpreter free,
\* after a dispatch, an early exit and a release-function call.
C7_Witness ==
    /\ gil = "free"
    /\ \A n \in Natives : npc[n].pc = "idle"
    /\ \E c \in Ctxs : sent[c] = 2 /\ Len(LogOf(c)) = 1
    /\ \E c \in Ctxs : freeCalls[c] = 1

\* C8: the host thread never holds the interpreter while it is inside a
\* blocking native call, it holds it again when it touches host objects
\* after the call, and every callback the library invokes, on another
\* thread or during the native call, gets the interpreter, dispatches and
\* returns.
C8_NativeCallsAllowThreads ==
    /\ [](HostInNativeCall => gil # "host")
    /\ [](~touchNoGil)
    /\ \A n \in Natives : (npc[n].pc = "invoked") ~> (npc[n].pc = "idle")

\* The host thread is inside a native deregistration that has called the
\* release function, while a callback on a native thread is dispatching.
C8_Witness ==
    /\ hpc.pc = "deregDone"
    /\ freeCalls[hpc.c] = 1
    /\ \E n \in Natives : npc[n].pc = "dispatch" /\ gil = n /\ npc[n].locked

\* C9: the host receives the events of one registration in the order the
\* library produced them, each for the registration it was produced for;
\* nothing is said across registrations.
C9_PerIdOrder ==
    /\ \A i \in 1..Len(hostLog) :
          /\ hostLog[i][1] \in Ctxs
          /\ \E k \in 1..sent[hostLog[i][1]] : hostLog[i][2] = EventOf(k)
    /\ \A c \in Ctxs : \A i, j \in 1..Len(LogOf(c)) :
          i < j => LogOf(c)[i][2] < LogOf(c)[j][2]

\* Two events of one registration were received with an event of the other
\* registration between them.
C9_Witness ==
    \E i, j, l \in 1..Len(hostLog) :
        /\ i < j /\ j < l
        /\ hostLog[i] = <<1, EventOf(1)>>
        /\ hostLog[j][1] = 2
        /\ hostLog[l] = <<1, EventOf(2)>>
        /\ reg[1].kind = "handle"
        /\ reg[2].kind = "timeout"

\* ------------------------------------------------------------------------
\* A domain / network dispatch callback, step by step
\* (libvirt_virConnectDomainEventLifecycleCallback line 6020-6071 and its
\* siblings, libvirt_virConnectNetworkEventLifecycleCallback line 7183-7235,
\* libvirt_virConnectDomainEventTunableCallback line 6853-6909).  disp.held
\* is the set of temporary host objects the callback holds a reference to:
\* "dict" (pyobj_dict), "obj" (pyobj_dom / pyobj_net), "ret" (pyobj_ret).
\* ------------------------------------------------------------------------
DispKinds == {"domain", "network", "tunable"}

\* The library invokes the callback: ret = -1, pyobj_ret = NULL, and the
\* thread state is acquired.
DispatchCallbackEnter(kind) ==
    /\ disp.pc = "idle"
    /\ nDisp < MaxDispatch
    /\ CanEnsure("n1", gil)
    /\ disp' = [pc |-> IF kind = "tunable" THEN "decode" ELSE "ensured",
                kind |-> kind, ret |-> -1, objRet |-> FALSE,
                invoked |-> FALSE, path |-> "", ref0 |-> natRef, held |-> {}]
    /\ gil' = EnsureThreadState("n1", gil)
    /\ UNCHANGED <<pyErr, natRef, errHandler, dispLast, nDisp>>
    /\ UNCHANGED nonDispVars

\* dictKey = libvirt_constcharPtrWrap("conn"): on failure goto cleanup; the
\* key is released right after the lookup (line 6876-6877).
DispatchDictKey(ok) ==
    /\ disp.pc = "ensured"
    /\ IF ok
       THEN /\ disp' = [disp EXCEPT !.pc = "keyed"]
            /\ UNCHANGED pyErr
       ELSE /\ disp' = [disp EXCEPT !.pc = "cleanup", !.path = "dictKey"]
            /\ pyErr' = TRUE
    /\ UNCHANGED <<natRef, errHandler, dispLast, nDisp, gil>>
    /\ UNCHANGED nonDispVars

WrapFailureUndo_Forgotten(r) == r

\* virDomainFree(dom) / virNetworkFree(net) on the wrap-failure branch.
WrapFailureUndo(r) == r - 1

\* virDomainRef(dom), then the wrap: on failure the reference is given back
\* and the callback goes to cleanup; on success the context is referenced.
DispatchRefAndWrap(ok) ==
    /\ disp.pc = "keyed"
    /\ IF ok
       THEN /\ natRef' = natRef + 1
            /\ disp' = [disp EXCEPT !.pc = "wrapped", !.held = @ \cup {"obj"}]
            /\ UNCHANGED pyErr
       ELSE /\ natRef' = WrapFailureUndo(natRef + 1)
            /\ disp' = [disp EXCEPT !.pc = "cleanup", !.path = "wrap"]
            /\ pyErr' = TRUE
    /\ UNCHANGED <<errHandler, dispLast, nDisp, gil>>
    /\ UNCHANGED nonDispVars

\* PyObject_CallMethod(pyobj_conn, "_dispatch...", ...): the method runs and
\* returns a value, runs and raises, or cannot be found; then the two
\* Py_DECREFs.
DispatchCallMethod(outcome) ==
    /\ disp.pc = "wrapped"
    /\ outcome \in {"ok", "raise", "noattr"}
    /\ disp' = [disp EXCEPT !.pc = "cleanup", !.path = outcome,
                            !.objRet = (outcome = "ok"),
                            !.invoked = (outcome # "noattr"),
                            !.held = (@ \ {"obj"}) \cup
                                     (IF outcome = "ok" THEN {"ret"} ELSE {})]
    /\ pyErr' = (pyErr \/ outcome # "ok")
    /\ UNCHANGED <<natRef, errHandler, dispLast, nDisp, gil>>
    /\ UNCHANGED nonDispVars

\* The return code set at cleanup: 0 only when pyobj_ret is not NULL.
CleanupRet(objRet, ret) == IF objRet THEN 0 ELSE ret

\* The temporaries cleanup releases (line 6897-6904, 6060-6066): pyobj_ret
\* when there is one; when there is none, the tunable callback's
\* Py_XDECREF(pyobj_dict).
CleanupReleases(kind, objRet) ==
    IF objRet THEN {"ret"}
    ELSE IF kind = "tunable" THEN {"dict"} ELSE {}

\* cleanup: a NULL pyobj_ret is printed (which clears the error
\* indicator), otherwise ret = 0; the thread state is released and the
\* callback returns ret.
DispatchCleanup ==
    LET r == CleanupRet(disp.objRet, disp.ret)
        e == IF disp.objRet THEN pyErr ELSE FALSE
    IN  /\ disp.pc = "cleanup"
        /\ pyErr' = e
        /\ gil' = CallbackCleanup("n1", "free")
        /\ dispLast' = [kind |-> disp.kind, path |-> disp.path, ret |-> r,
                        invoked |-> disp.invoked, pending |-> e,
                        refDelta |-> natRef - disp.ref0,
                        held |-> disp.held \ CleanupReleases(disp.kind, disp.objRet)]
        /\ disp' = DispIdle
        /\ nDisp' = nDisp + 1
        /\ UNCHANGED <<natRef, errHandler>>
        /\ UNCHANGED nonDispVars

\* ------------------------------------------------------------------------
\* The error handler
\* ------------------------------------------------------------------------
\* libvirt_virRegisterErrorHandler (line 2289-2327): (None, None) resets
\* the handler, anything else installs f unchecked.
libvirt_virRegisterErrorHandler(f) ==
    /\ disp.pc = "idle"
    /\ gil = "free"
    /\ f \in {"None", "fn"}
    /\ errHandler' = IF f = "None" THEN "NULL" ELSE f
    /\ UNCHANGED <<disp, pyErr, natRef, dispLast, nDisp, gil>>
    /\ UNCHANGED nonDispVars

\* libvirt_virErrorFuncHandler (line 2248-2287): nothing for no error;
\* otherwise acquire, call the default handler or the installed host
\* handler with (ctx, info), drop the result, release.  The result is not
\* examined.
libvirt_virErrorFuncHandler(isError, raises) ==
    LET called == isError /\ errHandler = "fn"
        e      == pyErr \/ (called /\ raises)
    IN  /\ disp.pc = "idle"
        /\ nDisp < MaxDispatch
        /\ CanEnsure("n1", gil)
        /\ pyErr' = e
        /\ gil' = IF isError THEN ReleaseThreadState("n1", gil) ELSE gil
        /\ dispLast' = [kind |-> "error",
                        path |-> IF ~called THEN "default"
                                 ELSE IF raises THEN "raise" ELSE "ok",
                        ret |-> 0, invoked |-> called, pending |-> e,
                        refDelta |-> 0, held |-> {}]
        /\ nDisp' = nDisp + 1
        /\ UNCHANGED <<disp, natRef, errHandler>>
        /\ UNCHANGED nonDispVars

\* ------------------------------------------------------------------------
\* Typed-parameter codec: values
\* ------------------------------------------------------------------------
\* virTypedParameterType, as the switch statements of the codec name them.
VIR_TYPED_PARAM_INT == 1
VIR_TYPED_PARAM_UINT == 2
VIR_TYPED_PARAM_LLONG == 3
VIR_TYPED_PARAM_ULLONG == 4
VIR_TYPED_PARAM_DOUBLE == 5
VIR_TYPED_PARAM_BOOLEAN == 6
VIR_TYPED_PARAM_STRING == 7
VIR_TYPED_PARAM_LAST == 8

KnownKinds == VIR_TYPED_PARAM_INT..VIR_TYPED_PARAM_STRING

\* Largest value of a C int.  An unsigned int above it has bit 31 set.
INT_MAX == 2147483647

\* The value union of one virTypedParameter.  n holds i, l, ul, d and b, and
\* the low 31 bits of ui; top is bit 31 of ui; s is the text s points to.
Val(n, top, s) == [n |-> n, top |-> top, s |-> s]

\* A native buffer: the array itself, the string an entry owns, a key copy.
NoBuf == <<"none", 0>>

\* One virTypedParameter: field, type, value, and the buffer value.s points to.
Param(field, type, value, buf) ==
    [field |-> field, type |-> type, value |-> value, buf |-> buf]

\* What a claim compares of an entry: name, kind and value, not the address.
Fields(p) == [field |-> p.field, type |-> p.type, value |-> p.value]

FieldsOf(ps) == [i \in 1..Len(ps) |-> Fields(ps[i])]

\* Host values of the codec, in the shape of PyInt and PyNone.
PyStr(s) == [t |-> "str", k |-> s, v |-> 0]

PyFloat(d) == [t |-> "float", k |-> "", v |-> d]

PyBool(b) == [t |-> "bool", k |-> "", v |-> b]

PyNULL == [t |-> "NULL", k |-> "", v |-> 0]

\* One item of a host dict, in iteration order.
Item(key, val) == [key |-> key, val |-> val]

\* The value an unsigned int has once it is converted to an int parameter:
\* unchanged up to INT_MAX, reduced by 2^32 above it.
IntOfUInt(value) ==
    IF value.top = 1 THEN (value.n - INT_MAX) - 1 ELSE value.n

\* ------------------------------------------------------------------------
\* Type wrappers (typewrappers.c)
\* ------------------------------------------------------------------------
\* PyObject *libvirt_intWrap(int val)
libvirt_intWrap(val) == PyInt(val)

\* PyObject *libvirt_longlongWrap(long long val)
libvirt_longlongWrap(val) == PyInt(val)

\* PyObject *libvirt_ulonglongWrap(unsigned long long val)
libvirt_ulonglongWrap(val) == PyInt(val)

\* PyObject *libvirt_constcharPtrWrap(const char *str): a copy of the text.
libvirt_constcharPtrWrap(str) == PyStr(str)

PyFloat_FromDouble(d) == PyFloat(d)

PyBool_FromLong(b) == PyBool(IF b # 0 THEN 1 ELSE 0)

Unwrapped(value) == [ok |-> TRUE, value |-> value]

UnwrapFailed == [ok |-> FALSE, value |-> Val(0, 0, "")]

\* A host integer: an int, or a bool, which is an int to the interpreter.
IsPyInteger(obj) == obj.t \in {"int", "bool"}

\* int libvirt_intUnwrap(PyObject *obj, int *val)
libvirt_intUnwrap(obj) ==
    IF IsPyInteger(obj) /\ obj.v <= INT_MAX
    THEN Unwrapped(Val(obj.v, 0, "")) ELSE UnwrapFailed

\* int libvirt_uintUnwrap(PyObject *obj, unsigned int *val): a negative
\* value does not fit.
libvirt_uintUnwrap(obj) ==
    IF IsPyInteger(obj) /\ obj.v >= 0
    THEN Unwrapped(Val(obj.v, 0, "")) ELSE UnwrapFailed

\* int libvirt_longlongUnwrap(PyObject *obj, long long *val)
libvirt_longlongUnwrap(obj) ==
    IF IsPyInteger(obj) THEN Unwrapped(Val(obj.v, 0, "")) ELSE UnwrapFailed

\* int libvirt_ulonglongUnwrap(PyObject *obj, unsigned long long *val)
libvirt_ulonglongUnwrap(obj) ==
    IF IsPyInteger(obj) /\ obj.v >= 0
    THEN Unwrapped(Val(obj.v, 0, "")) ELSE UnwrapFailed

\* int libvirt_doubleUnwrap(PyObject *obj, double *val)
libvirt_doubleUnwrap(obj) ==
    IF obj.t = "float" \/ IsPyInteger(obj)
    THEN Unwrapped(Val(obj.v, 0, "")) ELSE UnwrapFailed

\* int libvirt_boolUnwrap(PyObject *obj, bool *val): the truth of the object.
libvirt_boolUnwrap(obj) ==
    CASE obj.t \in {"int", "bool", "float"} ->
             Unwrapped(Val(IF obj.v # 0 THEN 1 ELSE 0, 0, ""))
      [] obj.t = "str"  -> Unwrapped(Val(IF obj.k # "" THEN 1 ELSE 0, 0, ""))
      [] obj.t = "none" -> Unwrapped(Val(0, 0, ""))
      [] OTHER          -> UnwrapFailed

\* int libvirt_charPtrUnwrap(PyObject *obj, char **str): a new copy of the
\* text of a host string, nothing for any other object.
libvirt_charPtrUnwrap(obj) ==
    IF obj.t = "str" THEN Unwrapped(Val(0, 0, obj.k)) ELSE UnwrapFailed

\* ------------------------------------------------------------------------
\* getPyVirTypedParameter: native array -> host dict
\* ------------------------------------------------------------------------
\* PyDict_SetItem: replace the value of a key the dict has, else add the item.
RECURSIVE PyDict_SetItem(_, _, _)
PyDict_SetItem(info, key, val) ==
    IF info = <<>> THEN <<Item(key, val)>>
    ELSE IF Head(info).key = key THEN <<Item(key, val)>> \o Tail(info)
    ELSE <<Head(info)>> \o PyDict_SetItem(Tail(info), key, val)

LookupError(msg) == [type |-> "LookupError", msg |-> msg]

\* The unsigned member is handed to the wrapper of a signed int.
DecodeUInt(value) == libvirt_intWrap(IntOfUInt(value))

\* switch (params[i].type): the host value of one entry, NULL for a type
\* the switch does not know.
DecodeValue(p) ==
    CASE p.type = VIR_TYPED_PARAM_INT     -> libvirt_intWrap(p.value.n)
      [] p.type = VIR_TYPED_PARAM_UINT    -> DecodeUInt(p.value)
      [] p.type = VIR_TYPED_PARAM_LLONG   -> libvirt_longlongWrap(p.value.n)
      [] p.type = VIR_TYPED_PARAM_ULLONG  -> libvirt_ulonglongWrap(p.value.n)
      [] p.type = VIR_TYPED_PARAM_DOUBLE  -> PyFloat_FromDouble(p.value.n)
      [] p.type = VIR_TYPED_PARAM_BOOLEAN -> PyBool_FromLong(p.value.n)
      [] p.type = VIR_TYPED_PARAM_STRING  -> libvirt_constcharPtrWrap(p.value.s)
      [] OTHER                            -> PyNULL

\* What the decoder hands back for an entry of unknown type: nothing, with
\* LookupError set.  The dict built so far is neither returned nor released.
DecodeUnknown_Skip(info) ==
    [ok |-> TRUE, info |-> info, ret |-> <<>>, exc |-> NoExc,
     alloc |-> {}, freed |-> <<>>, dictLeft |-> FALSE]
DecodeUnknown(info) ==
    [ok |-> FALSE, info |-> <<>>, ret |-> <<>>,
     exc |-> LookupError("Type value not recognized"),
     alloc |-> {}, freed |-> <<>>, dictLeft |-> TRUE]

RECURSIVE DecodeFrom(_, _, _)
DecodeFrom(params, i, info) ==
    IF i > Len(params)
    THEN [ok |-> TRUE, info |-> info, ret |-> <<>>, exc |-> NoExc,
          alloc |-> {}, freed |-> <<>>, dictLeft |-> FALSE]
    ELSE LET val == DecodeValue(params[i])
         IN  IF val = PyNULL
             THEN DecodeUnknown(info)
             ELSE DecodeFrom(params, i + 1,
                             PyDict_SetItem(info, params[i].field, val))

getPyVirTypedParameter(params) == DecodeFrom(params, 1, <<>>)

\* ------------------------------------------------------------------------
\* setPyVirTypedParameter: host dict + schema -> new native array
\* ------------------------------------------------------------------------
ArrBuf == <<"ret", 0>>

StrBuf(i) == <<"str", i>>

KeyBuf(i) == <<"key", i>>

\* One slot of an array VIR_ALLOC_N has just returned: all zero.
ZeroParam == Param("", 0, Val(0, 0, ""), NoBuf)

\* virTypedParamsFree(params, nparams): the string of every entry of type
\* string that has one, then the array; nothing for a NULL array.
virTypedParamsFree(arrBuf, params, nparams) ==
    IF arrBuf = NoBuf THEN <<>>
    ELSE LET strs == SelectSeq(SubSeq(params, 1, nparams),
                               LAMBDA p : p.type = VIR_TYPED_PARAM_STRING
                                          /\ p.buf # NoBuf)
         IN  [i \in 1..Len(strs) |-> strs[i].buf] \o <<arrBuf>>

\* for (i = 0; i < nparams; i++) if (STREQ(params[i].field, keystr)) break;
\* the index of the first entry of that name, 0 for i == nparams.
KeyIndex(params, keystr) ==
    IF \E j \in 1..Len(params) : params[j].field = keystr
    THEN CHOOSE j \in 1..Len(params) :
             /\ params[j].field = keystr
             /\ \A h \in 1..(j - 1) : params[h].field # keystr
    ELSE 0

\* The exception an unwrap function leaves: the value is out of range for
\* an integer object, of the wrong type for any other.
UnwrapError(obj) ==
    IF IsPyInteger(obj)
    THEN [type |-> "OverflowError", msg |-> "value out of range"]
    ELSE [type |-> "TypeError", msg |-> "wrong type"]

\* switch (params[i].type): the value converted to the schema's type.
ConvertValue(type, value) ==
    CASE type = VIR_TYPED_PARAM_INT     -> libvirt_intUnwrap(value)
      [] type = VIR_TYPED_PARAM_UINT    -> libvirt_uintUnwrap(value)
      [] type = VIR_TYPED_PARAM_LLONG   -> libvirt_longlongUnwrap(value)
      [] type = VIR_TYPED_PARAM_ULLONG  -> libvirt_ulonglongUnwrap(value)
      [] type = VIR_TYPED_PARAM_DOUBLE  -> libvirt_doubleUnwrap(value)
      [] type = VIR_TYPED_PARAM_BOOLEAN -> libvirt_boolUnwrap(value)
      [] type = VIR_TYPED_PARAM_STRING  -> libvirt_charPtrUnwrap(value)
      [] OTHER                          -> UnwrapFailed

ConvertError(type, value) ==
    IF type \in KnownKinds THEN UnwrapError(value)
    ELSE LookupError("Type value not recognized")

\* cleanup: virTypedParamsFree(ret, size); return NULL;
EncodeCleanup_ArrayOnly(st, size) ==
    [ok |-> FALSE, info |-> <<>>, ret |-> <<>>, exc |-> st.exc,
     alloc |-> st.alloc, freed |-> st.freed \o <<ArrBuf>>,
     dictLeft |-> FALSE]
EncodeCleanup(st, size) ==
    [ok |-> FALSE, info |-> <<>>, ret |-> <<>>, exc |-> st.exc,
     alloc |-> st.alloc,
     freed |-> st.freed \o virTypedParamsFree(ArrBuf, st.arr, size),
     dictLeft |-> FALSE]

\* if (i == nparams): LookupError, VIR_FREE(keystr), goto cleanup.
UnmatchedKey_KeepsKeystr(st, i) ==
    [st EXCEPT !.exc = LookupError("Attribute name could not be recognized")]
UnmatchedKey(st, i) ==
    [st EXCEPT !.exc = LookupError("Attribute name could not be recognized"),
               !.freed = @ \o <<KeyBuf(i)>>]

\* One turn of the PyDict_Next loop for item i, which fills ret[i - 1], and
\* the turns after it.  st is the array with what has been allocated and
\* released so far.
RECURSIVE EncodeFrom(_, _, _, _)
EncodeFrom(info, params, i, st) ==
    IF i > Len(info)
    THEN [ok |-> TRUE, info |-> <<>>, ret |-> st.arr, exc |-> NoExc,
          alloc |-> st.alloc, freed |-> st.freed, dictLeft |-> FALSE]
    ELSE
    LET keystr == libvirt_charPtrUnwrap(PyStr(info[i].key)).value.s
        st1    == [st EXCEPT !.alloc = @ \cup {KeyBuf(i)}]
        j      == KeyIndex(params, keystr)
    IN  IF j = 0
        THEN EncodeCleanup(UnmatchedKey(st1, i), Len(info))
        ELSE
        LET type == params[j].type
            conv == ConvertValue(type, info[i].val)
            st2  == [st1 EXCEPT !.freed = @ \o <<KeyBuf(i)>>,
                                !.arr[i].field = keystr,
                                !.arr[i].type = type]
        IN  IF ~conv.ok
            THEN EncodeCleanup(
                     [st2 EXCEPT !.exc = ConvertError(type, info[i].val)],
                     Len(info))
            ELSE IF type = VIR_TYPED_PARAM_STRING
            THEN EncodeFrom(info, params, i + 1,
                     [st2 EXCEPT !.arr[i].value = conv.value,
                                 !.arr[i].buf = StrBuf(i),
                                 !.alloc = @ \cup {StrBuf(i)}])
            ELSE EncodeFrom(info, params, i + 1,
                     [st2 EXCEPT !.arr[i].value = conv.value])

\* if (size == 0): LookupError, return NULL.
EncodeEmpty ==
    [ok |-> FALSE, info |-> <<>>, ret |-> <<>>,
     exc |-> LookupError("Dictionary must not be empty"),
     alloc |-> {}, freed |-> <<>>, dictLeft |-> FALSE]

setPyVirTypedParameter(info, params) ==
    IF Len(info) = 0 THEN EncodeEmpty
    ELSE EncodeFrom(info, params, 1,
                    [arr |-> [i \in 1..Len(info) |-> ZeroParam],
                     alloc |-> {ArrBuf}, freed |-> <<>>, exc |-> NoExc])

\* ------------------------------------------------------------------------
\* The codec applied to bounded inputs
\* ------------------------------------------------------------------------
MaxParams == 2    \* entries of a native typed-parameter array
MaxItems == 2     \* items of a host mapping

FieldNames == {"a", "b"}

\* A key no schema of the model has.
MapKeys == FieldNames \cup {"z"}

\* Values of each type, the extremes of the 32-bit types among them:
\* Val(INT_MAX, 1, "") is the unsigned int 4294967295.
ParamValues(type) ==
    CASE type = VIR_TYPED_PARAM_INT     -> {Val(-1, 0, ""), Val(INT_MAX, 0, "")}
      [] type = VIR_TYPED_PARAM_UINT    -> {Val(5, 0, ""), Val(INT_MAX, 1, "")}
      [] type = VIR_TYPED_PARAM_LLONG   -> {Val(-7, 0, "")}
      [] type = VIR_TYPED_PARAM_ULLONG  -> {Val(9, 0, "")}
      [] type = VIR_TYPED_PARAM_DOUBLE  -> {Val(15, 0, "")}
      [] type = VIR_TYPED_PARAM_BOOLEAN -> {Val(1, 0, "")}
      [] type = VIR_TYPED_PARAM_STRING  -> {Val(0, 0, "x")}
      [] OTHER                          -> {Val(0, 0, "")}

TypedParams ==
    UNION {{Param(f, type, value, NoBuf) : f \in FieldNames,
                                           value \in ParamValues(type)} :
           type \in VIR_TYPED_PARAM_INT..VIR_TYPED_PARAM_LAST}

\* The strings of an array the native library filled are the array's own.
WithBufs(ps) ==
    [i \in 1..Len(ps) |->
        IF ps[i].type = VIR_TYPED_PARAM_STRING
        THEN [ps[i] EXCEPT !.buf = <<"src", i>>] ELSE ps[i]]

\* Arrays of up to MaxParams entries, no field name twice.
TypedSets ==
    UNION {{WithBufs(ps) : ps \in {q \in [1..n -> TypedParams] :
                \A i, j \in 1..n : i # j => q[i].field # q[j].field}} :
           n \in 0..MaxParams}

HostValues == {PyInt(-1), PyInt(5), PyStr("x"), PyNone}

\* Host dicts of up to MaxItems items, in iteration order.
Mappings ==
    UNION {{m \in [1..n -> {Item(k, v) : k \in MapKeys, v \in HostValues}] :
                \A i, j \in 1..n : i # j => m[i].key # m[j].key} :
           n \in 0..MaxItems}

CodecInit ==
    /\ inP \in TypedSets
    /\ inInfo \in Mappings
    /\ cpc = "idle"
    /\ out = NoOut
    /\ lastCall = NoCall
    /\ nCalls = 0
    /\ inHints = <<>>
    /\ addFail = 0

\* getPyVirTypedParameter(inP)
Decode ==
    /\ cpc = "idle"
    /\ out' = getPyVirTypedParameter(inP)
    /\ cpc' = "decoded"
    /\ UNCHANGED <<inP, inInfo, lastCall, nCalls, inHints, addFail, nonParamVars>>

\* setPyVirTypedParameter of the dict just decoded, inP as the schema
ReEncode ==
    /\ cpc = "decoded"
    /\ out.ok
    /\ out' = setPyVirTypedParameter(out.info, inP)
    /\ cpc' = "roundtrip"
    /\ UNCHANGED <<inP, inInfo, lastCall, nCalls, inHints, addFail, nonParamVars>>

\* setPyVirTypedParameter(inInfo, inP)
Encode ==
    /\ cpc = "idle"
    /\ out' = setPyVirTypedParameter(inInfo, inP)
    /\ cpc' = "encoded"
    /\ UNCHANGED <<inP, inInfo, lastCall, nCalls, inHints, addFail, nonParamVars>>

CodecNext ==
    \/ Decode
    \/ ReEncode
    \/ Encode

SpecCodecInit == ImplInit /\ LoopInit /\ BridgeInit /\ DispInit
    /\ CodecInit /\ gil = "free"

SpecCodec == SpecCodecInit /\ [][CodecNext]_vars

\* Buffer b has been released exactly once.
Count(s, b) == Cardinality({i \in 1..Len(s) : s[i] = b})

\* Every buffer the function allocated has been released exactly once, and
\* nothing else has been released.
AllReleasedOnce(o) ==
    /\ \A b \in o.alloc : Count(o.freed, b) = 1
    /\ \A i \in 1..Len(o.freed) : o.freed[i] \in o.alloc

\* Item i of the mapping has a key the schema lacks.
Unmatched(i) == KeyIndex(inP, inInfo[i].key) = 0

\* Item i of the mapping has a key of the schema and a value that does not
\* convert to the schema's type.
Unconvertible(i) ==
    /\ ~Unmatched(i)
    /\ ~ConvertValue(inP[KeyIndex(inP, inInfo[i].key)].type, inInfo[i].val).ok

\* ------------------------------------------------------------------------
\* Claims about the codec
\* ------------------------------------------------------------------------
\* C16: decoding a non-empty array P of known types and encoding the dict
\* again with P as the schema yields an array equal to P field for field
\* (name, type, value), unsigned values above INT_MAX included.
C16_RoundTrip ==
    cpc = "roundtrip" /\ inP # <<>> =>
        /\ out.ok
        /\ FieldsOf(out.ret) = FieldsOf(inP)

\* C17: decoding an array in which some entry has a type outside the seven
\* known ones fails with LookupError and hands back no dict, wherever the
\* entry stands and whatever precedes it.
C17_UnknownKindFails ==
    cpc = "decoded" /\ (\E i \in 1..Len(inP) : inP[i].type \notin KnownKinds) =>
        /\ ~out.ok
        /\ out.info = <<>>
        /\ out.exc.type = "LookupError"

\* The entry of unknown type is the second one and a known one precedes it.
C17_Witness ==
    /\ cpc = "decoded"
    /\ Len(inP) = 2
    /\ inP[1].type \in KnownKinds
    /\ inP[2].type \notin KnownKinds
    /\ ~out.ok
    /\ out.exc.type = "LookupError"

C20_ConversionFailureReleasesAll ==
    cpc = "encoded" /\ (\E i \in 1..Len(inInfo) : Unconvertible(i)) =>
        /\ ~out.ok
        /\ out.ret = <<>>
        /\ out.exc # NoExc
        /\ AllReleasedOnce(out)

\* A string was converted for the first item, the second does not convert.
C20_Witness ==
    /\ cpc = "encoded"
    /\ Len(inInfo) = 2
    /\ ~Unmatched(1)
    /\ Unconvertible(2)
    /\ StrBuf(1) \in out.alloc
    /\ Count(out.freed, StrBuf(1)) = 1
    /\ ~out.ok

\* ------------------------------------------------------------------------
\* virPyDictToTypedParams: host dict -> new native array, types inferred
\* ------------------------------------------------------------------------
ParamsBuf == <<"params", 0>>

ValBuf(i) == <<"val", i>>

\* A host list or tuple of the given elements.
PyList(items) == [t |-> "list", k |-> "", v |-> 0, items |-> items]

PyTuple(items) == [t |-> "tuple", k |-> "", v |-> 0, items |-> items]

\* One entry of a hint table: virPyTypedParamsHint (line 269-272).
Hint(name, type) == [name |-> name, type |-> type]

\* The for loop over hints (line 293-298): the type of the first hint whose
\* name is keystr, -1 when there is none.
HintedType(hints, keystr) ==
    LET found == {i \in 1..Len(hints) : hints[i].name = keystr}
    IN  IF found = {} THEN -1
        ELSE hints[CHOOSE i \in found : \A j \in found : i <= j].type

\* PyBool_Check and PyLong_Check: a bool is an integer to the interpreter,
\* so PyLong_Check holds of it too.
PyBool_Check(value) == value.t = "bool"

PyLong_Check(value) == value.t \in {"int", "bool"}

\* if (type == -1) { ... } (line 300-321) with the integer test first.
InferType_LongFirst(value) ==
    IF value.t = "str" THEN VIR_TYPED_PARAM_STRING
    ELSE IF PyLong_Check(value)
    THEN (IF value.v < 0 THEN VIR_TYPED_PARAM_LLONG ELSE VIR_TYPED_PARAM_ULLONG)
    ELSE IF PyBool_Check(value) THEN VIR_TYPED_PARAM_BOOLEAN
    ELSE IF value.t = "float" THEN VIR_TYPED_PARAM_DOUBLE
    ELSE -1

\* if (type == -1) { ... } (line 300-321): the type the host value selects
\* when no hint names the field, -1 when it selects none.  The tests are
\* made in this order: string, bool, integer (negative: LLONG, otherwise
\* ULLONG), float.
InferType(value) ==
    IF value.t = "str" THEN VIR_TYPED_PARAM_STRING
    ELSE IF PyBool_Check(value) THEN VIR_TYPED_PARAM_BOOLEAN
    ELSE IF PyLong_Check(value)
    THEN (IF value.v < 0 THEN VIR_TYPED_PARAM_LLONG ELSE VIR_TYPED_PARAM_ULLONG)
    ELSE IF value.t = "float" THEN VIR_TYPED_PARAM_DOUBLE
    ELSE -1

\* The type of the entry made for value under keystr (line 293-321).
EntryType(hints, keystr, value) ==
    IF HintedType(hints, keystr) # -1 THEN HintedType(hints, keystr)
    ELSE InferType(value)

\* PyErr_Format(PyExc_TypeError, "Unknown type of \"%s\" field", keystr)
UnknownType(keystr) ==
    [type |-> "TypeError", msg |-> "Unknown type of field", field |-> keystr]

\* The capacity after virTypedParamsAdd* has made room for one more entry
\* in an array of n entries and capacity max (VIR_RESIZE_N).
AddCapacity(n, max) ==
    IF n < max THEN max
    ELSE max + (IF max \div 2 > 1 THEN max \div 2 ELSE 1)

\* The values a dict value stands for (line 439-450): the elements of a
\* list or tuple in order, a scalar itself; first element only.
SequenceElements_First(value) ==
    IF value.t \in {"list", "tuple"}
    THEN (IF value.items = <<>> THEN <<>> ELSE <<value.items[1]>>)
    ELSE <<value>>

\* The values a dict value stands for (line 439-450): the elements of a
\* list or tuple in order, a scalar itself.
SequenceElements(value) ==
    IF value.t \in {"list", "tuple"} THEN value.items ELSE <<value>>

\* cleanup: VIR_FREE(keystr); virTypedParamsFree(params, n); return ret;
\* after a failure on item i.
DictCleanup(st, i, exc) ==
    [ok |-> FALSE, info |-> <<>>, ret |-> <<>>, exc |-> exc,
     alloc |-> st.alloc,
     freed |-> st.freed \o <<KeyBuf(i)>>
               \o virTypedParamsFree(IF st.arr = <<>> THEN NoBuf ELSE ParamsBuf,
                                     st.arr, Len(st.arr)),
     dictLeft |-> FALSE, n |-> Len(st.arr), max |-> st.max]

\* virPyDictToTypedParamOne (line 282-398) for one value under keystr: the
\* type, the unwrap, virTypedParamsAdd*; a string by way of a copy that is
\* released once the array has its own.  failAt is the number of the
\* virTypedParamsAdd* call that cannot allocate, 0 for none.  The result is
\* the state with the entry appended, or with exc set and failed TRUE.
virPyDictToTypedParamOne(st, hints, keystr, value, failAt) ==
    LET type == EntryType(hints, keystr, value)
        conv == ConvertValue(type, value)
        k    == Len(st.arr) + 1
        isS  == type = VIR_TYPED_PARAM_STRING
    IN  IF type = -1
        THEN [st EXCEPT !.failed = TRUE, !.exc = UnknownType(keystr)]
        ELSE IF ~conv.ok
        THEN [st EXCEPT !.failed = TRUE, !.exc = ConvertError(type, value)]
        ELSE IF st.adds + 1 = failAt
        THEN [st EXCEPT !.failed = TRUE, !.exc = NoExc, !.adds = @ + 1,
                        !.alloc = @ \cup (IF isS THEN {ValBuf(k)} ELSE {}),
                        !.freed = @ \o (IF isS THEN <<ValBuf(k)>> ELSE <<>>)]
        ELSE [st EXCEPT !.arr = Append(@, Param(keystr, type, conv.value,
                                                IF isS THEN StrBuf(k) ELSE NoBuf)),
                        !.adds = @ + 1,
                        !.max = AddCapacity(Len(st.arr), @),
                        !.alloc = @ \cup {ParamsBuf}
                                    \cup (IF isS THEN {StrBuf(k), ValBuf(k)} ELSE {}),
                        !.freed = @ \o (IF isS THEN <<ValBuf(k)>> ELSE <<>>)]

\* The for loop over the elements of one dict value (line 442-447): it
\* stops at the first element that fails.
RECURSIVE ElementsFrom(_, _, _, _, _, _)
ElementsFrom(st, hints, keystr, elems, j, failAt) ==
    IF j > Len(elems) \/ st.failed THEN st
    ELSE ElementsFrom(virPyDictToTypedParamOne(st, hints, keystr, elems[j], failAt),
                      hints, keystr, elems, j + 1, failAt)

\* One turn of the PyDict_Next loop for item i and the turns after it
\* (line 434-453): the key is copied, the value or its elements appended,
\* the copy of the key released.
RECURSIVE DictFrom(_, _, _, _, _)
DictFrom(dict, hints, i, st, failAt) ==
    IF i > Len(dict)
    THEN [ok |-> TRUE, info |-> <<>>, ret |-> st.arr, exc |-> NoExc,
          alloc |-> st.alloc, freed |-> st.freed, dictLeft |-> FALSE,
          n |-> Len(st.arr), max |-> st.max]
    ELSE
    LET st1 == [st EXCEPT !.alloc = @ \cup {KeyBuf(i)}]
        st2 == ElementsFrom(st1, hints, dict[i].key,
                            SequenceElements(dict[i].val), 1, failAt)
    IN  IF st2.failed
        THEN DictCleanup(st2, i, st2.exc)
        ELSE DictFrom(dict, hints, i + 1,
                      [st2 EXCEPT !.freed = @ \o <<KeyBuf(i)>>], failAt)

\* virPyDictToTypedParams (line 409-464) with the hint table it is given.
DictToTypedParams(dict, hints, failAt) ==
    DictFrom(dict, hints, 1,
             [arr |-> <<>>, alloc |-> {}, freed |-> <<>>, exc |-> NoExc,
              failed |-> FALSE, adds |-> 0, max |-> 0], failAt)

\* virPyDictToTypedParams(dict, &params, &nparams, NULL, 0), as the migrate
\* and block-copy calls invoke it (line 7702, 7732, 8650).
virPyDictToTypedParams(dict) == DictToTypedParams(dict, <<>>, 0)

\* ------------------------------------------------------------------------
\* Host-facing calls that build typed-parameter arrays
\* ------------------------------------------------------------------------
MaxCalls == 2     \* host-facing calls in one run

\* How the native library answers a Set-parameters call: its schema query
\* fails, its get call fails, its set call fails, or all three succeed.
SetOutcomes == {"typeFail", "allocFail", "getFail", "setFail", "ok"}

\* Schemas the native library reports.
CallSchemas ==
    {WithBufs(s) : s \in
        { <<>>,
          <<Param("a", VIR_TYPED_PARAM_INT, Val(-1, 0, ""), NoBuf)>>,
          <<Param("a", VIR_TYPED_PARAM_STRING, Val(0, 0, "x"), NoBuf)>>,
          <<Param("a", VIR_TYPED_PARAM_STRING, Val(0, 0, "x"), NoBuf),
            Param("b", VIR_TYPED_PARAM_UINT, Val(5, 0, ""), NoBuf)>> }}

\* Mappings the host passes.
CallMappings ==
    {m \in Mappings : \A i \in 1..Len(m) :
        m[i].key \in {"a", "z"} /\ m[i].val \in {PyInt(5), PyStr("x"), PyNone}}

SetOps == {"virDomainSetSchedulerParameters", "virDomainSetSchedulerParametersFlags"}

Call(op, retval, exc, allocated, released, setInvoked, setCount, oob, native) ==
    [op |-> op, retval |-> retval, exc |-> exc, alloc |-> allocated,
     freed |-> released, setInvoked |-> setInvoked, setCount |-> setCount,
     oob |-> oob, native |-> native, steps |-> <<>>]

\* The native steps a call went through, in the order it took them.
Steps(call, steps) == [call EXCEPT !.steps = steps]

\* return PyErr_NoMemory();
PyErr_NoMemory == [type |-> "MemoryError", msg |-> ""]

\* if (size == 0): the mapping has no item.
MappingRequired(size) == size = 0

\* if (nparams == 0): the schema has no field.
NothingSettable_Never(nparams) == FALSE
NothingSettable(nparams) == nparams = 0

\* The count the cleanup label hands to virTypedParamsFree for new_params:
\* size, or nparams in virDomainSetSchedulerParametersFlags.
NewParamsCount(op, nparams, size) ==
    IF op = "virDomainSetSchedulerParametersFlags" THEN nparams ELSE size

\* The count handed to the native set entry point with new_params
\* (line 1014, 1090, 1164): size, the number of items of the mapping.
CommitCount_Schema(nparams, size) == nparams
CommitCount(nparams, size) == size

\* The strings of the entries the native get call filled in.
SchemaStrings(schema) ==
    {schema[i].buf : i \in {j \in 1..Len(schema) : schema[j].buf # NoBuf}}

\* cleanup: virTypedParamsFree(params, nparams);
\*          virTypedParamsFree(new_params, <count>);
SetCleanup(params, nparams, newBuf, newParams, count) ==
    virTypedParamsFree(ParamsBuf, params, nparams)
    \o virTypedParamsFree(newBuf, newParams,
                          IF count > Len(newParams) THEN Len(newParams) ELSE count)

\* The body of a Set-parameters call, from PyDict_Size to the return: the
\* size query, VIR_ALLOC_N(params, nparams), the get call that fills params
\* in, the encode, the native set call, cleanup.
SetParameters(op, info, schema, outcome) ==
    LET size    == Len(info)
        nparams == Len(schema)
    IN  IF MappingRequired(size)
        THEN Call(op, "NULL",
                  LookupError("Need non-empty dictionary to set attributes"),
                  {}, <<>>, FALSE, 0, FALSE, outcome)
        ELSE IF outcome = "typeFail"
        THEN Steps(Call(op, "-1", NoExc, {}, <<>>, FALSE, 0, FALSE, outcome),
                   <<"size">>)
        ELSE IF NothingSettable(nparams)
        THEN Steps(Call(op, "NULL",
                        LookupError("Domain has no settable attributes"),
                        {}, <<>>, FALSE, 0, FALSE, outcome),
                   <<"size">>)
        ELSE IF outcome = "allocFail"
        THEN Steps(Call(op, "NULL", PyErr_NoMemory, {}, <<>>, FALSE, 0, FALSE,
                        outcome),
                   <<"size", "alloc">>)
        ELSE IF outcome = "getFail"
        THEN Steps(Call(op, "-1", NoExc, {ParamsBuf},
                        SetCleanup([i \in 1..nparams |-> ZeroParam], nparams,
                                   NoBuf, <<>>, 0),
                        FALSE, 0, FALSE, outcome),
                   <<"size", "alloc", "populate">>)
        ELSE
        LET enc   == setPyVirTypedParameter(info, schema)
            count == NewParamsCount(op, nparams, size)
        IN  IF ~enc.ok
            THEN Steps(Call(op, "NULL", enc.exc,
                            {ParamsBuf} \cup SchemaStrings(schema) \cup enc.alloc,
                            enc.freed \o SetCleanup(schema, nparams, NoBuf, <<>>, 0),
                            FALSE, 0, FALSE, outcome),
                       <<"size", "alloc", "populate", "encode">>)
            ELSE Steps(Call(op, IF outcome = "setFail" THEN "-1" ELSE "0", NoExc,
                            {ParamsBuf} \cup SchemaStrings(schema) \cup enc.alloc,
                            enc.freed \o SetCleanup(schema, nparams, ArrBuf,
                                                    enc.ret, count),
                            TRUE, CommitCount(nparams, size), count > size,
                            outcome),
                       <<"size", "alloc", "populate", "encode", "set">>)

SetParametersCall(op, info, schema, outcome) ==
    /\ nCalls < MaxCalls
    /\ lastCall' = SetParameters(op, info, schema, outcome)
    /\ inInfo' = info
    /\ inP' = schema
    /\ nCalls' = nCalls + 1
    /\ UNCHANGED <<cpc, out, inHints, addFail, nonParamVars>>

libvirt_virDomainSetSchedulerParameters(info, schema, outcome) ==
    SetParametersCall("virDomainSetSchedulerParameters", info, schema, outcome)

libvirt_virDomainSetSchedulerParametersFlags(info, schema, outcome) ==
    SetParametersCall("virDomainSetSchedulerParametersFlags", info, schema, outcome)

\* What the caller of virPyDictToTypedParams releases before it returns:
\* virTypedParamsFree(params, nparams) in the migrate calls, nothing in
\* virDomainBlockCopy.
CallerFrees(op, conv) ==
    IF op = "virDomainBlockCopy" THEN <<>>
    ELSE virTypedParamsFree(IF conv.ret = <<>> THEN NoBuf ELSE ParamsBuf,
                            conv.ret, Len(conv.ret))

\* The value handed back when virPyDictToTypedParams fails.
DictFailure(op) == IF op = "virDomainBlockCopy" THEN "-1" ELSE "NULL"

\* The body of a call that builds its array from a dict of the host.
DictCall(op, dict, nativeOk) ==
    /\ nCalls < MaxCalls
    /\ LET conv == virPyDictToTypedParams(dict)
       IN  lastCall' =
               IF ~conv.ok
               THEN Call(op, DictFailure(op), conv.exc, conv.alloc, conv.freed,
                         FALSE, 0, FALSE, "")
               ELSE Call(op, IF nativeOk THEN "0" ELSE "-1", NoExc, conv.alloc,
                         conv.freed \o CallerFrees(op, conv),
                         FALSE, 0, FALSE, IF nativeOk THEN "ok" ELSE "fail")
    /\ inInfo' = dict
    /\ inP' = <<>>
    /\ nCalls' = nCalls + 1
    /\ UNCHANGED <<cpc, out, inHints, addFail, nonParamVars>>

libvirt_virDomainMigrate3(dict, nativeOk) ==
    DictCall("virDomainMigrate3", dict, nativeOk)

libvirt_virDomainMigrateToURI3(dict, nativeOk) ==
    DictCall("virDomainMigrateToURI3", dict, nativeOk)

libvirt_virDomainBlockCopy(dict, nativeOk) ==
    DictCall("virDomainBlockCopy", dict, nativeOk)

\* char *buf of libvirt_virStreamRecv (line 7518).
RecvBuf == <<"buf", 0>>

MaxBytes == 2     \* largest nbytes asked of virStreamRecv

\* What virStreamRecv can return for a request of nbytes: -2 (would
\* block), -1 (failure), or the number of bytes received.
RecvResults(nbytes) == {-2, -1} \cup (0..nbytes)

\* The value handed back after the native call (line 7539-7543).
RecvRetval(ret) ==
    IF ret = -2 THEN "-2" ELSE IF ret < 0 THEN "None" ELSE "data"

\* The releases of buf after the native call (line 7539-7545): VIR_FREE(buf)
\* stands after the two early returns.
RecvRelease(ret) == IF ret = -2 \/ ret < 0 THEN <<>> ELSE <<RecvBuf>>

\* libvirt_virStreamRecv (line 7511-7546): allocate nbytes + 1 bytes, on
\* failure return None; receive; hand back -2, None or the data.
libvirt_virStreamRecv(nbytes, allocOk, ret) ==
    /\ nCalls < MaxCalls
    /\ lastCall' =
           IF ~allocOk
           THEN Call("virStreamRecv", "None", NoExc, {}, <<>>, FALSE, 0, FALSE,
                     "allocFail")
           ELSE Call("virStreamRecv", RecvRetval(ret), NoExc, {RecvBuf},
                     RecvRelease(ret), FALSE, ret, FALSE,
                     IF ret >= 0 THEN "ok" ELSE "fail")
    /\ inInfo' = <<>>
    /\ inP' = <<>>
    /\ nCalls' = nCalls + 1
    /\ UNCHANGED <<cpc, out, inHints, addFail, nonParamVars>>

ParamNext ==
    \/ \E info \in CallMappings, schema \in CallSchemas, outcome \in SetOutcomes :
           \/ libvirt_virDomainSetSchedulerParameters(info, schema, outcome)
           \/ libvirt_virDomainSetSchedulerParametersFlags(info, schema, outcome)
    \/ \E dict \in CallMappings, nativeOk \in BOOLEAN :
           \/ libvirt_virDomainMigrate3(dict, nativeOk)
           \/ libvirt_virDomainMigrateToURI3(dict, nativeOk)
           \/ libvirt_virDomainBlockCopy(dict, nativeOk)
    \/ \E nbytes \in 0..MaxBytes, allocOk \in BOOLEAN :
           \E ret \in RecvResults(nbytes) : libvirt_virStreamRecv(nbytes, allocOk, ret)

SpecParamInit == ImplInit /\ LoopInit /\ BridgeInit /\ DispInit
    /\ ParamInit /\ gil = "free"

SpecParam == SpecParamInit /\ [][ParamNext]_vars

\* C15: every array a host-facing call allocated, with the strings it owns,
\* has been released exactly once when the call returns, whether the call
\* succeeded or failed.
C15_ArraysReleasedOnce ==
    nCalls > 0 /\ lastCall.op # "virStreamRecv" => AllReleasedOnce(lastCall)

\* C19 as stated: a Set-parameters call against a schema of zero fields
\* reports "no settable attributes", one with an empty mapping against a
\* schema with fields reports "need non-empty dictionary", and neither
\* calls the native set entry point.
C19_Original ==
    lastCall.op \in SetOps /\ lastCall.native # "typeFail" =>
        /\ inP = <<>> =>
               /\ lastCall.exc = LookupError("Domain has no settable attributes")
               /\ ~lastCall.setInvoked
        /\ inInfo = <<>> /\ inP # <<>> =>
               /\ lastCall.exc = LookupError("Need non-empty dictionary to set attributes")
               /\ ~lastCall.setInvoked

\* C19: a Set-parameters call with an empty mapping reports "need non-empty
\* dictionary" whatever the schema, a schema of zero fields included; one
\* with a mapping that has items against a schema of zero fields reports
\* "no settable attributes"; neither calls the native set entry point.
C19_EmptyInputErrors ==
    lastCall.op \in SetOps =>
        /\ inInfo = <<>> =>
               /\ lastCall.exc = LookupError("Need non-empty dictionary to set attributes")
               /\ ~lastCall.setInvoked
        /\ inInfo # <<>> /\ lastCall.native # "typeFail" /\ inP = <<>> =>
               /\ lastCall.exc = LookupError("Domain has no settable attributes")
               /\ ~lastCall.setInvoked

\* A call with items against a schema of zero fields has reported "no
\* settable attributes".
C19_Witness ==
    /\ lastCall.op \in SetOps
    /\ inInfo # <<>>
    /\ inP = <<>>
    /\ lastCall.exc = LookupError("Domain has no settable attributes")
    /\ ~lastCall.setInvoked

\* ------------------------------------------------------------------------
\* The dispatch callbacks: the tunable callback's decode step, and the
\* next-state relation
\* ------------------------------------------------------------------------
\* The arrays the library hands to the tunable callback: one the decoder
\* accepts and one with an entry of a kind it does not know.
TunableParams ==
    { << Param("a", VIR_TYPED_PARAM_INT, Val(5, 0, ""), NoBuf) >>,
      << Param("a", VIR_TYPED_PARAM_LAST, Val(0, 0, ""), NoBuf) >> }

\* pyobj_dict = getPyVirTypedParameter(params, nparams) (line 6870-6872):
\* the callback owns the dict; on NULL goto cleanup.
DispatchDecode(params) ==
    /\ disp.pc = "decode"
    /\ IF getPyVirTypedParameter(params).ok
       THEN /\ disp' = [disp EXCEPT !.pc = "ensured", !.held = @ \cup {"dict"}]
            /\ UNCHANGED pyErr
       ELSE /\ disp' = [disp EXCEPT !.pc = "cleanup", !.path = "decode"]
            /\ pyErr' = TRUE
    /\ UNCHANGED <<natRef, errHandler, dispLast, nDisp, gil>>
    /\ UNCHANGED nonDispVars

DispNext ==
    \/ \E kind \in DispKinds : DispatchCallbackEnter(kind)
    \/ \E params \in TunableParams : DispatchDecode(params)
    \/ \E ok \in BOOLEAN : DispatchDictKey(ok)
    \/ \E ok \in BOOLEAN : DispatchRefAndWrap(ok)
    \/ \E outcome \in {"ok", "raise", "noattr"} : DispatchCallMethod(outcome)
    \/ DispatchCleanup
    \/ \E f \in {"None", "fn"} : libvirt_virRegisterErrorHandler(f)
    \/ \E isError \in BOOLEAN, raises \in BOOLEAN :
          libvirt_virErrorFuncHandler(isError, raises)

SpecDispInit == ImplInit /\ LoopInit /\ BridgeInit /\ DispInit
    /\ ParamInit /\ gil = "free"

SpecDisp == SpecDispInit /\ [][DispNext]_vars

\* C12: a domain / network dispatch callback returns 0 to the library
\* whenever the dispatch method was invoked, also when the method raised,
\* and -1 only when the method could not be invoked at all.
C12_RetZeroIffInvoked ==
    dispLast.kind \in DispKinds =>
        (dispLast.ret = 0 <=> dispLast.invoked)

\* C13: when a native-originated callback returns to the library no host
\* exception is pending.
C13_NoPendingException ==
    dispLast.kind # "none" => ~dispLast.pending

\* C14: the native object is referenced before it is wrapped; when the
\* wrap fails the reference is given back (net change zero), the dispatch
\* method is not invoked, -1 is returned and the thread state is released.
C14_WrapFailureUndone ==
    /\ (disp.pc \in {"wrapped"}) => natRef = disp.ref0 + 1
    /\ (disp.pc = "cleanup" /\ disp.path = "wrap") =>
          natRef = disp.ref0 /\ ~disp.invoked
    /\ (dispLast.kind \in DispKinds /\ dispLast.path = "wrap") =>
          /\ dispLast.refDelta = 0
          /\ ~dispLast.invoked
          /\ dispLast.ret = -1
          /\ (disp.pc = "idle" => gil = "free")

\* A network callback whose wrap failed has returned, after a domain
\* callback that was dispatched.
C14_Witness ==
    /\ dispLast.kind = "network"
    /\ dispLast.path = "wrap"
    /\ disp.pc = "idle"
    /\ natRef = 2
    /\ nDisp = 2

\* ------------------------------------------------------------------------
\* Further claims about the event-loop proxies
\* ------------------------------------------------------------------------
\* C25: an add-handle or add-timeout proxy returns exactly the integer the
\* host add primitive returned, -1 when the primitive raised or returned
\* something that is no integer, and -1 when the invoke shim was not found,
\* in which case the primitive is not called.
C25_AddReturnsHostInteger ==
    [][Len(lib') = Len(lib) + 1 =>
          LET r == lib'[Len(lib')]
          IN  /\ r.ret = (CASE r.outcome = "ok"       -> hostNextId
                            [] r.outcome = "negative" -> -2
                            [] OTHER                  -> -1)
              /\ r.outcome = "notcalled" <=> ~r.lookupOk
              /\ ~r.lookupOk => addLog' = addLog
              /\ r.lookupOk => Len(addLog') = Len(addLog) + 1]_vars

\* One add has returned the id the host handed out, and one -1 because the
\* invoke shim was not found, the host primitive called for the first only.
C25_Witness ==
    /\ \E i \in 1..Len(lib) : lib[i].outcome = "ok" /\ lib[i].ret >= 1
    /\ \E i \in 1..Len(lib) : lib[i].outcome = "notcalled" /\ lib[i].ret = -1
    /\ Len(addLog) = 1

\* C30: a remove proxy acts on the tuple the host returned and on nothing
\* else: for a tuple of three it invokes once the release function of
\* position 2 on the opaque pointer of position 1, not at all when that
\* function is NULL, and reports success, whatever id the tuple was stored
\* for; for anything else it invokes nothing and reports failure.
C30_RemoveAppliesReturnedTuple ==
    [][\A i \in 1..Len(lib) :
          (Len(lib') = Len(lib) /\ lib'[i].removeRets # lib[i].removeRets) =>
              \E result \in HostRemoveResults(lib[i].kind, lib[i].ret, lastCb'.outcome) :
                  LET last == lib'[i].removeRets[Len(lib'[i].removeRets)]
                  IN  IF result.t = "tuple" /\ Len(result.items) = 3
                      THEN /\ last = 0
                           /\ lastCb'.released =
                                  (IF result.items[3] = PyNone THEN <<>>
                                   ELSE << <<result.items[3].v, result.items[2].v>> >>)
                           /\ relLog' = relLog \o lastCb'.released
                      ELSE /\ last = -1
                           /\ lastCb'.released = <<>>
                           /\ relLog' = relLog]_vars

\* The host handed back the tuple of another registration: the remove
\* reported success and released that other registration's opaque pointer.
C30_Witness ==
    \E i, j \in 1..Len(lib) :
        /\ i # j
        /\ lib[i].removeRets # <<>>
        /\ lib[i].removeRets[Len(lib[i].removeRets)] = 0
        /\ ~lib[i].handedBack
        /\ lastCb.fn = "remove"
        /\ lastCb.outcome = "swapped"
        /\ lastCb.released = << <<lib[j].ff, lib[j].opaque>> >>

\* ------------------------------------------------------------------------
\* Further claims about the dispatch callbacks
\* ------------------------------------------------------------------------
\* C28: when a dispatch callback returns, on success and on every failure
\* path, it holds no reference to any temporary host object it created;
\* the typed-parameter dict of the tunable callback included.
C28_TemporariesReleased ==
    dispLast.kind \in DispKinds => dispLast.held = {}

\* ------------------------------------------------------------------------
\* The schema-free encode on its own
\* ------------------------------------------------------------------------
MaxAddFail == 2   \* the latest virTypedParamsAdd* call that can be made to fail

\* Host values handed to the schema-free encode: scalars of every type it
\* tests for, one it knows no type for, and lists and tuples of them.
DictValues ==
    {PyInt(-1), PyInt(5), PyStr("x"), PyBool(1), PyFloat(2), PyNone,
     PyList(<<>>),
     PyList(<<PyInt(5), PyStr("x")>>),
     PyTuple(<<PyInt(-1), PyBool(1)>>),
     PyTuple(<<PyInt(5), PyNone>>),
     PyList(<<PyStr("x"), PyStr("y"), PyInt(5)>>)}

\* Host dicts of up to MaxItems items over the field names, in iteration
\* order.
DictMappings ==
    UNION {{m \in [1..n -> {Item(k, v) : k \in FieldNames, v \in DictValues}] :
                \A i, j \in 1..n : i # j => m[i].key # m[j].key} :
           n \in 0..MaxItems}

\* Hint tables: none, one hint, two hints for one name, a hint for the
\* other name.
HintTables ==
    { <<>>,
      <<Hint("a", VIR_TYPED_PARAM_INT)>>,
      <<Hint("a", VIR_TYPED_PARAM_UINT), Hint("a", VIR_TYPED_PARAM_STRING)>>,
      <<Hint("b", VIR_TYPED_PARAM_DOUBLE)>> }

DictInit ==
    /\ inP = <<>>
    /\ inInfo \in DictMappings
    /\ cpc = "idle"
    /\ out = NoOut
    /\ lastCall = NoCall
    /\ nCalls = 0
    /\ inHints = <<>>
    /\ addFail = 0

\* virPyDictToTypedParams(inInfo, &params, &nparams, hints, nhints)
EncodeDict(hints, failAt) ==
    /\ cpc = "idle"
    /\ out' = DictToTypedParams(inInfo, hints, failAt)
    /\ inHints' = hints
    /\ addFail' = failAt
    /\ cpc' = "dict"
    /\ UNCHANGED <<inP, inInfo, lastCall, nCalls, nonParamVars>>

DictNext ==
    \E hints \in HintTables, failAt \in 0..MaxAddFail : EncodeDict(hints, failAt)

SpecDictInit == ImplInit /\ LoopInit /\ BridgeInit /\ DispInit
    /\ DictInit /\ gil = "free"

SpecDict == SpecDictInit /\ [][DictNext]_vars

\* The name and value of every entry the dict stands for, in order: one
\* per scalar value, one per element of a list or tuple.
RECURSIVE Expanded(_, _)
Expanded(dict, i) ==
    IF i > Len(dict) THEN <<>>
    ELSE (IF dict[i].val.t \in {"list", "tuple"}
          THEN [j \in 1..Len(dict[i].val.items) |->
                    Item(dict[i].key, dict[i].val.items[j])]
          ELSE <<Item(dict[i].key, dict[i].val)>>)
         \o Expanded(dict, i + 1)

\* The kind the precedence gives the entry made for value under key: that
\* of the first hint for the key; else String, Bool, Int64 or UInt64 by
\* sign, Double by the type of the value; -1 when none applies.
KindByPrecedence(hints, key, value) ==
    IF \E i \in 1..Len(hints) : hints[i].name = key
    THEN hints[CHOOSE i \in 1..Len(hints) :
                   /\ hints[i].name = key
                   /\ \A j \in 1..(i - 1) : hints[j].name # key].type
    ELSE CASE value.t = "str"   -> VIR_TYPED_PARAM_STRING
           [] value.t = "bool"  -> VIR_TYPED_PARAM_BOOLEAN
           [] value.t = "int"   -> IF value.v < 0 THEN VIR_TYPED_PARAM_LLONG
                                   ELSE VIR_TYPED_PARAM_ULLONG
           [] value.t = "float" -> VIR_TYPED_PARAM_DOUBLE
           [] OTHER             -> -1

\* C22: every entry the schema-free encode returns has the kind the
\* precedence gives it (hint, String, Bool before the integers, Int64 for
\* a negative integer and UInt64 otherwise, Double); when the first value
\* that does not convert matches none of these and has no hint, the encode
\* fails with the type error that names its field.
C22_KindByPrecedence ==
    cpc = "dict" =>
        LET e == Expanded(inInfo, 1)
            untyped == {j \in 1..Len(e) :
                           KindByPrecedence(inHints, e[j].key, e[j].val) = -1}
        IN  /\ out.ok =>
                  /\ untyped = {}
                  /\ \A j \in 1..Len(out.ret) :
                         out.ret[j].type =
                             KindByPrecedence(inHints, e[j].key, e[j].val)
            /\ (~out.ok /\ out.exc.type = "TypeError" /\ out.exc.msg = "Unknown type of field") =>
                  \E j \in untyped : out.exc.field = e[j].key
            /\ (untyped # {} /\ addFail = 0) => ~out.ok

\* A bool and a negative integer in one tuple, and a hinted field, have
\* been encoded.
C22_Witness ==
    /\ cpc = "dict"
    /\ out.ok
    /\ inHints = <<Hint("a", VIR_TYPED_PARAM_UINT), Hint("a", VIR_TYPED_PARAM_STRING)>>
    /\ Len(inInfo) = 2
    /\ inInfo[1] = Item("a", PyInt(5))
    /\ inInfo[2] = Item("b", PyTuple(<<PyInt(-1), PyBool(1)>>))
    /\ out.ret[1].type = VIR_TYPED_PARAM_UINT
    /\ out.ret[2].type = VIR_TYPED_PARAM_LLONG
    /\ out.ret[3].type = VIR_TYPED_PARAM_BOOLEAN

\* C23: on success the schema-free encode returns one entry per scalar
\* value and one per element of every list or tuple, under the key of the
\* value and in element order; the count is the number of scalars plus the
\* lengths of the sequences; the count never exceeds the capacity.
C23_SequencesExpanded ==
    cpc = "dict" =>
        LET e == Expanded(inInfo, 1)
        IN  /\ out.n <= out.max
            /\ out.ok =>
                  /\ out.n = Len(out.ret)
                  /\ Len(out.ret) = Len(e)
                  /\ \A j \in 1..Len(e) :
                         /\ out.ret[j].field = e[j].key
                         /\ out.ret[j].value =
                                ConvertValue(out.ret[j].type, e[j].val).value

\* A list of three elements and a scalar have been encoded: four entries.
C23_Witness ==
    /\ cpc = "dict"
    /\ out.ok
    /\ Len(inInfo) = 2
    /\ inInfo[1].val = PyList(<<PyStr("x"), PyStr("y"), PyInt(5)>>)
    /\ inInfo[2].val = PyFloat(2)
    /\ out.n = 4
    /\ out.max >= 4

\* ------------------------------------------------------------------------
\* Further claims about the host-facing calls
\* ------------------------------------------------------------------------
\* C21: a Set-parameters call takes its native steps in the order size
\* query, allocation, populate, encode, set; the native set entry point is
\* invoked at most once, only after every earlier step succeeded, and with
\* the number of items of the mapping as its count; when an earlier step
\* fails it is not invoked.
C21_SetAfterEncodeWithMappingCount ==
    LET order == <<"size", "alloc", "populate", "encode", "set">>
        n     == Len(lastCall.steps)
    IN  lastCall.op \in SetOps =>
            /\ n <= Len(order)
            /\ lastCall.steps = SubSeq(order, 1, n)
            /\ lastCall.setInvoked <=> (n = Len(order))
            /\ lastCall.setInvoked =>
                   /\ lastCall.native \in {"ok", "setFail"}
                   /\ inP # <<>>
                   /\ setPyVirTypedParameter(inInfo, inP).ok
                   /\ lastCall.setCount = Len(inInfo)
            /\ (\/ lastCall.native \in {"typeFail", "allocFail", "getFail"}
                \/ inInfo = <<>>
                \/ inP = <<>>
                \/ ~setPyVirTypedParameter(inInfo, inP).ok) => ~lastCall.setInvoked

\* A call with one override against a schema of two fields has reached the
\* native set entry point.
C21_Witness ==
    /\ lastCall.op \in SetOps
    /\ lastCall.setInvoked
    /\ Len(inInfo) = 1
    /\ Len(inP) = 2
    /\ lastCall.setCount = 1

\* The call that returned last met an allocation failure: VIR_ALLOC_N of
\* the schema array in a Set-parameters call, or of the receive buffer.
AllocationFailed(call) ==
    \/ call.op \in SetOps /\ call.steps = <<"size", "alloc">>
    \/ call.op = "virStreamRecv" /\ call.native = "allocFail"

\* C24: an allocation failure inside a host-facing call is reported as an
\* out-of-memory error, with nothing left allocated.
C24_AllocationFailureIsMemoryError ==
    AllocationFailed(lastCall) =>
        /\ lastCall.exc = PyErr_NoMemory
        /\ AllReleasedOnce(lastCall)

\* C26: in a Set-parameters call no release of an array walks past the end
\* of the array: the override array is released with its own count.
C26_ReleaseWithinBounds ==
    lastCall.op \in SetOps => ~lastCall.oob

\* C29: the receive buffer of libvirt_virStreamRecv has been freed exactly
\* once when the call returns, whatever the native call returned.
C29_RecvBufferFreedOnce ==
    lastCall.op = "virStreamRecv" => AllReleasedOnce(lastCall)

\* ------------------------------------------------------------------------
\* Further claims about the registrations
\* ------------------------------------------------------------------------
\* C27: once a call of the legacy registration pair has returned, the
\* bridge holds one reference on the context object while its registration
\* is active and none otherwise; a register or deregister that failed at
\* the native layer has left the count as it was.
C27_LegacyRefsMatchRegistrations ==
    \A c \in Ctxs :
        reg[c].kind = "legacy" /\ hpc.c # c =>
            ctxRef[c] = (IF reg[c].st = "active" THEN 1 ELSE 0)

====
